---- MODULE Spec2Model ----
(***************************************************************************)
(* Branching conversation tree of rust-gpt (src/src/conversations.rs).     *)
(*                                                                         *)
(* A Conversation owns a HashMap<Uuid, Message>.  Uuid::new_v4 is modelled *)
(* as the allocation of the next unused natural number, so the domain of   *)
(* `interactions` is always 1..n and the numeric order of ids is the       *)
(* creation order of the messages.  Option<T> is modelled as a sequence of *)
(* length 0 (None) or 1 (Some).                                            *)
(***************************************************************************)
EXTENDS Integers, Sequences, FiniteSets, TLC

\* ------------------------------------------------------------------ bounds
\* Largest number of messages of a conversation under Spec.
MaxMsgs == 5
\* Longest list of queries handed to one insertion.
MaxBatch == 2
\* Longest list of choices the provider returns.
MaxChoices == 2
\* Largest number of messages of a conversation under SpecInternal.
InternalMax == 3
\* Largest number of messages of a conversation under SpecRead.
ReadMax == 5
\* Largest number of messages of a conversation under SpecIter.
IterMax == 8
\* Largest number of messages of a conversation under SpecStore.
StoreMax == 3
\* Largest number of messages of a conversation under SpecForeign.
ForeignMax == 3
FrameMax == 2
NameMax == 3
FlatMax == 4
IterTwoMax == 4
TuiKeysMax == 3
TuiQueueMax == 2
\* Largest number of messages of a conversation under SpecParams.
ParamsMax == 4
\* Largest number of messages of a conversation under SpecWide.
WideMax == 259
\* Longest list of queries of one insertion under SpecWide.
WideBatch == 2

\* ------------------------------------------------------- program constants
\* Number of values of the u8 that holds Message::index.
U8Modulus == 256
ChannelCapacity == 32
usize_MAX == 2147483647
u16_MAX == 65535

Roles == {"System", "User", "Assistant"}

\* Message contents: the empty string (rejected by Message::build) and two
\* distinguishable non-empty strings.
Contents == {"", "a", "b"}

\* The contents used under SpecInternal.
InternalContents == {"", "a"}

\* The contents used under SpecRead.
ReadContents == {"", "a"}

\* The paths of the file system, and the one the conversations of Public are
\* built with.
Paths == {"p1", "p2"}

BuildPath == "p1"

None == <<>>

Some(x) == <<x>>

\* An id that Uuid::new_v4 never returns for a message of this conversation.
UnknownId == 0 - 1

VARIABLES
    built,          \* TRUE once Conversation::build has returned Ok
    interactions,   \* Conversation::interactions : id -> Message
    pending,        \* the do_completion call suspended on the provider, if any
    default_parameters, \* Conversation::default_parameters (None before build)
    ret,            \* what the most recent call was and what it returned
    panicked,       \* TRUE once a call has panicked (the process is gone)
    name,           \* Conversation::name
    path,           \* Conversation::path
    files,          \* the file system: path -> contents of the file, if any
    iterators,      \* the ConversationIter values alive
    builder,        \* a CompletionParametersBuilder
    flat,           \* the Conversation of lib.rs, if one was made
    tui             \* the terminal application: its tasks, channel and state

vars == <<built, interactions, default_parameters, pending, ret, panicked,
          name, path, files, iterators, builder, flat, tui>>

\* ---------------------------------------------------- CompletionParameters
\* CompletionModel and its to_string.
CompletionModels == {"GPT35", "GPT35_16K", "GPT4", "GPT4_32K"}

CompletionModel_to_string(model) ==
    CASE model = "GPT35" -> "gpt-3.5-turbo"
      [] model = "GPT35_16K" -> "gpt-3.5-turbo-16k"
      [] model = "GPT4" -> "gpt-4"
      [] model = "GPT4_32K" -> "gpt-4-32k"

\* The parameters CompletionParametersBuilder::default().build() gives.  The
\* temperature (an f32) is counted in tenths: 10 stands for 1.0.
DefaultParameters ==
    [temperature |-> 10, n |-> 1, model |-> "GPT35", max_tokens |-> 512]

\* CompletionParametersBuilder::default(): no field is set.
EmptyBuilder ==
    [temperature |-> <<>>, n |-> <<>>, model |-> <<>>, max_tokens |-> <<>>]

\* The f32 value NaN among the temperatures, which are tenths otherwise; the
\* comparisons of f32 are false when either side is NaN.
NaN == 0 - 999

f32_lt(a, b) == a # NaN /\ b # NaN /\ a < b

f32_gt(a, b) == a # NaN /\ b # NaN /\ a > b

\* CompletionParametersBuilder::validate: the temperature, when set, is
\* neither below 0.0 nor above 2.0.
validate_ExclusiveBounds(self) ==
    IF self.temperature # <<>>
    THEN LET i == self.temperature[1]
         IN  IF ~f32_gt(i, 0) THEN "ValidationError"
             ELSE IF ~f32_lt(i, 20) THEN "ValidationError"
             ELSE "Ok"
    ELSE "Ok"

validate(self) ==
    IF self.temperature # <<>>
    THEN LET i == self.temperature[1]
         IN  IF f32_lt(i, 0) THEN "ValidationError"
             ELSE IF f32_gt(i, 20) THEN "ValidationError"
             ELSE "Ok"
    ELSE "Ok"

\* The build function derive_builder generates: validate first, then every
\* field is the value set or the field's default.
CompletionParametersBuilder_build(self) ==
    IF validate(self) # "Ok"
    THEN [kind |-> validate(self), parameters |-> <<>>]
    ELSE [kind |-> "Ok",
          parameters |->
            <<[f \in DOMAIN DefaultParameters |->
                 IF self[f] # <<>> THEN self[f][1] ELSE DefaultParameters[f]]>>]

\* The parameters conversations are built with under SpecParams.
ParameterSets ==
    {DefaultParameters,
     [temperature |-> 7, n |-> 2, model |-> "GPT4", max_tokens |-> 256]}

\* CompletionParameters::with_n.
with_n_FromDefaults(self, n) == [DefaultParameters EXCEPT !.n = n]

with_n(self, n) == [self EXCEPT !.n = n]

\* The parameters of a completion (do_completion, lines 439-443).
completion_parameters(default, n_completions) ==
    IF n_completions # None THEN with_n(default, n_completions[1]) ELSE default

\* The request do_completion builds (lines 445-454); each message is sent as
\* its role and content.
completion_request(parameters, messages) ==
    [n |-> parameters.n,
     model |-> CompletionModel_to_string(parameters.model),
     max_tokens |-> parameters.max_tokens,
     temperature |-> parameters.temperature,
     messages |-> [i \in 1..Len(messages) |->
                     [role |-> messages[i].role, content |-> messages[i].content]]]

\* The parameters conversations are built with under SpecStore.
StoreParameters ==
    [temperature |-> 7, n |-> 2, model |-> "GPT4", max_tokens |-> 256]

\* ----------------------------------------------------------------- Message
\* Message::build.  `id` is the fresh Uuid; `checked` tells whether the build
\* has overflow checks (debug profile: `sibling.index + 1` panics at 255) or
\* not (release profile: it wraps to 0).
Message_build_NoParent(role, content, parent_id, sibling, id, checked) ==
    IF content = "" THEN [kind |-> "BadMessage"]
    ELSE IF parent_id = None /\ role # "System" THEN [kind |-> "BadMessage"]
    ELSE [kind |-> "Ok",
          msg |-> [id |-> id, parent_id |-> None,
                   index |-> IF sibling = None THEN 1 ELSE sibling[1].index + 1,
                   role |-> role, content |-> content]]

Message_build(role, content, parent_id, sibling, id, checked) ==
    IF content = "" THEN [kind |-> "BadMessage"]
    ELSE IF parent_id = None /\ role # "System" THEN [kind |-> "BadMessage"]
    ELSE IF sibling # None /\ sibling[1].index + 1 >= U8Modulus /\ checked
         THEN [kind |-> "Panic"]
    ELSE [kind |-> "Ok",
          msg |-> [id |-> id, parent_id |-> parent_id,
                   index |-> IF sibling = None THEN 1
                             ELSE (sibling[1].index + 1) % U8Modulus,
                   role |-> role, content |-> content]]

\* ------------------------------------------------------------ Conversation
\* The ids of a tree in allocation order.
IdSeq(tree) == [i \in 1..Cardinality(DOMAIN tree) |-> i]

\* Conversation::get_children: the messages whose parent is parent_message_id,
\* sorted by index.  Equal indices (possible only after the u8 has wrapped)
\* are listed in id order, one of the orders the HashMap iteration allows.
get_children(tree, parent_message_id) ==
    LET IsChild(id) == tree[id].parent_id = Some(parent_message_id)
        Before(a, b) == \/ tree[a].index < tree[b].index
                        \/ tree[a].index = tree[b].index /\ a < b
        ids == SortSeq(SelectSeq(IdSeq(tree), IsChild), Before)
    IN  [i \in 1..Len(ids) |-> tree[ids[i]]]

\* The loop of add_children_to_message: builds the messages one after the
\* other, each with the previous one as sibling; stops at the first failure.
RECURSIVE build_messages(_, _, _, _, _, _, _)
build_messages(next_id, parent_id, messages, role, oldest_sibling, added, checked) ==
    IF messages = <<>> THEN [kind |-> "Ok", added |-> added]
    ELSE LET r == Message_build(role, Head(messages), Some(parent_id),
                                oldest_sibling, next_id, checked)
         IN  IF r.kind # "Ok" THEN [kind |-> r.kind, added |-> added]
             ELSE build_messages(next_id + 1, parent_id, Tail(messages), role,
                                 Some(r.msg), Append(added, r.msg), checked)

Extend_Overwrite(tree, added) ==
    [id \in DOMAIN tree \cup {added[i].id : i \in 1..Len(added)} |->
        IF id \in DOMAIN tree /\ (added = <<>> \/ tree[id].parent_id # added[1].parent_id)
        THEN tree[id]
        ELSE [added[1] EXCEPT !.id = id]]

\* The tree with the messages of `added` inserted (HashMap::extend).
Extend(tree, added) ==
    [id \in DOMAIN tree \cup {added[i].id : i \in 1..Len(added)} |->
        IF id \in DOMAIN tree THEN tree[id]
        ELSE added[id - Cardinality(DOMAIN tree)]]

\* Conversation::add_children_to_message: [kind, tree, ids].
add_children_to_message_Partial(tree, parent_id, messages, role, checked) ==
    LET children == get_children(tree, parent_id)
        oldest_sibling == IF children = <<>> THEN None
                          ELSE Some(children[Len(children)])
        b == build_messages(Cardinality(DOMAIN tree) + 1, parent_id, messages,
                            role, oldest_sibling, <<>>, checked)
    IN  [kind |-> b.kind, tree |-> Extend(tree, b.added),
         ids |-> IF b.kind = "Ok" THEN [i \in 1..Len(b.added) |-> b.added[i].id]
                 ELSE <<>>]

add_children_to_message(tree, parent_id, messages, role, checked) ==
    LET children == get_children(tree, parent_id)
        oldest_sibling == IF children = <<>> THEN None
                          ELSE Some(children[Len(children)])
        b == build_messages(Cardinality(DOMAIN tree) + 1, parent_id, messages,
                            role, oldest_sibling, <<>>, checked)
    IN  IF b.kind # "Ok" THEN [kind |-> b.kind, tree |-> tree, ids |-> <<>>]
        ELSE [kind |-> "Ok", tree |-> Extend(tree, b.added),
              ids |-> [i \in 1..Len(b.added) |-> b.added[i].id]]

\* Conversation::build: [kind, tree].
Conversation_build(system_message) ==
    LET r == Message_build("System", system_message, None, None, 1, FALSE)
    IN  IF r.kind # "Ok" THEN [kind |-> r.kind, tree |-> <<>>]
        ELSE [kind |-> "Ok", tree |-> (r.msg.id :> r.msg)]

\* The messages of `tree` with the ids of `ids`, in that order.
Lookup(tree, ids) == [i \in 1..Len(ids) |-> tree[ids[i]]]

\* Conversation::add_queries: [kind, tree, messages].
add_queries_NoRoleCheck(tree, parent_id, queries, checked) ==
    IF parent_id \notin DOMAIN tree
    THEN [kind |-> "MessageNotPartOfConversation", tree |-> tree, messages |-> <<>>]
    ELSE LET r == add_children_to_message(tree, parent_id, queries, "User", checked)
         IN  [kind |-> r.kind, tree |-> r.tree, messages |-> Lookup(r.tree, r.ids)]

add_queries_NoLookup(tree, parent_id, queries, checked) ==
    IF parent_id \in DOMAIN tree
       /\ ~(tree[parent_id].role = "Assistant" \/ tree[parent_id].role = "System")
    THEN [kind |-> "InvalidMessageRole", tree |-> tree, messages |-> <<>>]
    ELSE LET r == add_children_to_message(tree, parent_id, queries, "User", checked)
         IN  [kind |-> r.kind, tree |-> r.tree, messages |-> Lookup(r.tree, r.ids)]

add_queries_Reversed(tree, parent_id, queries, checked) ==
    IF parent_id \notin DOMAIN tree
    THEN [kind |-> "MessageNotPartOfConversation", tree |-> tree, messages |-> <<>>]
    ELSE IF ~(tree[parent_id].role = "Assistant" \/ tree[parent_id].role = "System")
    THEN [kind |-> "InvalidMessageRole", tree |-> tree, messages |-> <<>>]
    ELSE LET r == add_children_to_message(tree, parent_id, queries, "User", checked)
         IN  [kind |-> r.kind, tree |-> r.tree,
              messages |-> [i \in 1..Len(r.ids) |-> r.tree[r.ids[Len(r.ids) + 1 - i]]]]

add_queries(tree, parent_id, queries, checked) ==
    IF parent_id \notin DOMAIN tree
    THEN [kind |-> "MessageNotPartOfConversation", tree |-> tree, messages |-> <<>>]
    ELSE IF ~(tree[parent_id].role = "Assistant" \/ tree[parent_id].role = "System")
    THEN [kind |-> "InvalidMessageRole", tree |-> tree, messages |-> <<>>]
    ELSE LET r == add_children_to_message(tree, parent_id, queries, "User", checked)
         IN  [kind |-> r.kind, tree |-> r.tree, messages |-> Lookup(r.tree, r.ids)]

RECURSIVE trailing_messages_NoRoot(_, _, _)
trailing_messages_NoRoot(tree, current_msg, messages) ==
    IF current_msg.parent_id = None
    THEN [kind |-> "Ok", messages |-> messages]
    ELSE IF current_msg.parent_id[1] \in DOMAIN tree
         THEN trailing_messages_NoRoot(tree, tree[current_msg.parent_id[1]],
                                       Append(messages, current_msg))
         ELSE [kind |-> "MessageNotPartOfConversation", messages |-> <<>>]

\* The parent walk of do_completion (lines 421-433): current_msg and its
\* ancestors, collected leaf first.
RECURSIVE trailing_messages(_, _, _)
trailing_messages(tree, current_msg, messages) ==
    IF current_msg.parent_id = None
    THEN [kind |-> "Ok", messages |-> Append(messages, current_msg)]
    ELSE IF current_msg.parent_id[1] \in DOMAIN tree
         THEN trailing_messages(tree, tree[current_msg.parent_id[1]],
                                Append(messages, current_msg))
         ELSE [kind |-> "MessageNotPartOfConversation", messages |-> <<>>]

Reverse(s) == [i \in 1..Len(s) |-> s[Len(s) + 1 - i]]

do_completion_request_AnyRole(tree, message_id) ==
    IF message_id \notin DOMAIN tree
    THEN [kind |-> "MessageNotPartOfConversation", messages |-> <<>>]
    ELSE LET t == trailing_messages(tree, tree[message_id], <<>>)
         IN  [kind |-> t.kind, messages |-> [i \in 1..Len(t.messages) |->
                                                t.messages[Len(t.messages) + 1 - i]]]

\* do_completion up to the provider call (lines 406-458): [kind, messages],
\* messages being the request's message list when kind is "Ok".
do_completion_request(tree, message_id) ==
    IF message_id \notin DOMAIN tree
    THEN [kind |-> "MessageNotPartOfConversation", messages |-> <<>>]
    ELSE IF tree[message_id].role # "User"
    THEN [kind |-> "InvalidMessageRole", messages |-> <<>>]
    ELSE LET t == trailing_messages(tree, tree[message_id], <<>>)
         IN  [kind |-> t.kind, messages |-> Reverse(t.messages)]

\* choices.into_iter().filter_map(|choice| choice.message.content)
Responses(choices) ==
    LET HasContent(c) == c # None
        kept == SelectSeq(choices, HasContent)
    IN  [i \in 1..Len(kept) |-> kept[i][1]]

do_completion_response_SkipEmpty(tree, message_id, choices, checked) ==
    LET NonEmpty(c) == c # ""
        r == add_children_to_message(tree, message_id,
                                     SelectSeq(Responses(choices), NonEmpty),
                                     "Assistant", checked)
    IN  [kind |-> r.kind, tree |-> r.tree, messages |-> Lookup(r.tree, r.ids)]

\* do_completion after the provider has answered (lines 460-469):
\* [kind, tree, messages].
do_completion_response(tree, message_id, choices, checked) ==
    LET r == add_children_to_message(tree, message_id, Responses(choices),
                                     "Assistant", checked)
    IN  [kind |-> r.kind, tree |-> r.tree, messages |-> Lookup(r.tree, r.ids)]

\* ------------------------------------------------------------ reading
\* The orders in which interactions.iter() can yield the entries of the
\* HashMap: every arrangement of its keys.
RECURSIVE Arrangements(_)
Arrangements(S) ==
    IF S = {} THEN {<<>>}
    ELSE UNION {{<<x>> \o o : o \in Arrangements(S \ {x})} : x \in S}

HashMapOrders(tree) == Arrangements(DOMAIN tree)

\* Conversation::get_latest_messages, the HashMap yielding its entries in
\* `order`.
get_latest_messages_Unfiltered(tree, order) ==
    [i \in 1..Len(order) |-> tree[order[i]]]

get_latest_messages(tree, order) ==
    LET parents == {tree[id].parent_id[1] :
                        id \in {i \in DOMAIN tree : tree[i].parent_id # None}}
        kept == SelectSeq(order, LAMBDA id : id \notin parents)
    IN  [i \in 1..Len(kept) |-> tree[kept[i]]]

\* Conversation::get_root_message, the HashMap yielding its entries in
\* `order`: [kind, msg]; `expect` panics when no message is without parent.
get_root_message(tree, order) ==
    LET roots == SelectSeq(order, LAMBDA id : tree[id].parent_id = None)
    IN  IF roots = <<>> THEN [kind |-> "Panic"]
        ELSE [kind |-> "Ok", msg |-> tree[roots[1]]]

\* The parents loop of get_message_list (lines 274-282): [kind, messages];
\* `unwrap` panics on a parent_id that is not a key.
RECURSIVE parent_messages_OneStep(_, _, _)
parent_messages_OneStep(tree, current, messages) ==
    IF current.parent_id = None THEN [kind |-> "Ok", messages |-> messages]
    ELSE IF current.parent_id[1] \notin DOMAIN tree THEN [kind |-> "Panic"]
    ELSE [kind |-> "Ok",
          messages |-> Append(messages, tree[current.parent_id[1]])]

RECURSIVE parent_messages(_, _, _)
parent_messages(tree, current, messages) ==
    IF current.parent_id = None THEN [kind |-> "Ok", messages |-> messages]
    ELSE IF current.parent_id[1] \notin DOMAIN tree THEN [kind |-> "Panic"]
    ELSE LET parent == tree[current.parent_id[1]]
         IN  parent_messages(tree, parent, Append(messages, parent))

\* The children loop of get_message_list (lines 288-298).
RECURSIVE first_children_Last(_, _, _)
first_children_Last(tree, current, messages) ==
    LET children == get_children(tree, current)
    IN  IF children = <<>> THEN messages
        ELSE LET first == children[Len(children)]
             IN  first_children_Last(tree, first.id, Append(messages, first))

RECURSIVE first_children(_, _, _)
first_children(tree, current, messages) ==
    LET children == get_children(tree, current)
    IN  IF children = <<>> THEN messages
        ELSE LET first == children[1]
             IN  first_children(tree, first.id, Append(messages, first))

\* get_message_list once the anchor is known (lines 274-300).
message_list_from(tree, anchor) ==
    LET up == parent_messages(tree, anchor, <<anchor>>)
    IN  IF up.kind = "Panic" THEN [kind |-> "Panic", messages |-> <<>>]
        ELSE [kind |-> "Ok",
              messages |-> first_children(tree, anchor.id, Reverse(up.messages))]

\* Conversation::get_message_list: [kind, messages].  `root` is what the
\* call of get_root_message at line 270 gives.
get_message_list_AbsentAsRoot(tree, anchor_message_id, root) ==
    IF anchor_message_id # None /\ anchor_message_id[1] \in DOMAIN tree
    THEN message_list_from(tree, tree[anchor_message_id[1]])
    ELSE IF root.kind = "Panic" THEN [kind |-> "Panic", messages |-> <<>>]
    ELSE message_list_from(tree, root.msg)

get_message_list(tree, anchor_message_id, root) ==
    IF anchor_message_id # None
    THEN IF anchor_message_id[1] \in DOMAIN tree
         THEN message_list_from(tree, tree[anchor_message_id[1]])
         ELSE [kind |-> "MessageNotPartOfConversation", messages |-> <<>>]
    ELSE IF root.kind = "Panic" THEN [kind |-> "Panic", messages |-> <<>>]
    ELSE message_list_from(tree, root.msg)

\* Conversation::get_message_siblings: [kind, messages].
get_message_siblings_Children(tree, message_id) ==
    IF message_id \notin DOMAIN tree
    THEN [kind |-> "MessageNotPartOfConversation", messages |-> <<>>]
    ELSE IF tree[message_id].parent_id = None
         THEN [kind |-> "Ok", messages |-> <<tree[message_id]>>]
         ELSE [kind |-> "Ok", messages |-> get_children(tree, message_id)]

get_message_siblings(tree, message_id) ==
    IF message_id \notin DOMAIN tree
    THEN [kind |-> "MessageNotPartOfConversation", messages |-> <<>>]
    ELSE IF tree[message_id].parent_id = None
         THEN [kind |-> "Ok", messages |-> <<tree[message_id]>>]
         ELSE [kind |-> "Ok",
               messages |-> get_children(tree, tree[message_id].parent_id[1])]

\* The orders that bring each key of the HashMap to the front: they give
\* every message a search for the first match over interactions.iter() can
\* give.
FrontOrders(tree) ==
    {<<x>> \o SelectSeq(IdSeq(tree), LAMBDA id : id # x) : x \in DOMAIN tree}

\* Conversation::iter, get_root_message giving `root`: [kind, current_stack].
Conversation_iter(root) ==
    IF root.kind = "Panic" THEN [kind |-> "Panic", current_stack |-> <<>>]
    ELSE [kind |-> "Ok", current_stack |-> <<root.msg>>]

\* VecDeque::push_front of each of `items` in turn.
RECURSIVE push_front_all(_, _)
push_front_all(stack, items) ==
    IF items = <<>> THEN stack
    ELSE push_front_all(<<Head(items)>> \o stack, Tail(items))

\* ConversationIter::next: [item, current_stack].
ConversationIter_next_Forward(tree, current_stack) ==
    IF current_stack = <<>> THEN [item |-> None, current_stack |-> <<>>]
    ELSE LET current_message == Head(current_stack)
             children == get_children(tree, current_message.id)
         IN  [item |-> Some(current_message),
              current_stack |-> push_front_all(Tail(current_stack), children)]

ConversationIter_next_FirstChildOnly(tree, current_stack) ==
    IF current_stack = <<>> THEN [item |-> None, current_stack |-> <<>>]
    ELSE LET current_message == Head(current_stack)
             children == get_children(tree, current_message.id)
         IN  [item |-> Some(current_message),
              current_stack |->
                 push_front_all(Tail(current_stack),
                                IF children = <<>> THEN <<>>
                                ELSE <<Head(children)>>)]

ConversationIter_next(tree, current_stack) ==
    IF current_stack = <<>> THEN [item |-> None, current_stack |-> <<>>]
    ELSE LET current_message == Head(current_stack)
             children == get_children(tree, current_message.id)
         IN  [item |-> Some(current_message),
              current_stack |-> push_front_all(Tail(current_stack),
                                               Reverse(children))]

\* ------------------------------------------------------------ persistence
\* serde's text for a Role (async_openai renames the variants to lowercase),
\* and the Role of a text, if any.
Role_serialize(role) ==
    CASE role = "System" -> "system"
      [] role = "User" -> "user"
      [] role = "Assistant" -> "assistant"

Role_deserialize(text) ==
    CASE text = "system" -> Some("System")
      [] text = "user" -> Some("User")
      [] text = "assistant" -> Some("Assistant")
      [] OTHER -> None

\* The mapping serde writes for a Message.
Message_serialize(msg) ==
    [id |-> msg.id, parent_id |-> msg.parent_id, index |-> msg.index,
     role |-> Role_serialize(msg.role), content |-> msg.content]

\* The Message serde reads from a mapping whose role is a Role.
Message_deserialize(value) ==
    [id |-> value.id, parent_id |-> value.parent_id, index |-> value.index,
     role |-> Role_deserialize(value.role)[1], content |-> value.content]

\* serde_yaml::to_string(self) (line 497), the HashMap yielding its entries in
\* `order`: a document with the default parameters, one entry per message
\* and the name.  The path is skipped (line 177).
serialize(parameters, tree, conversation_name, order) ==
    [kind |-> "conversation",
     default_parameters |-> parameters,
     interactions |-> [i \in 1..Len(order) |->
                         [key |-> order[i],
                          value |-> Message_serialize(tree[order[i]])]],
     name |-> conversation_name]

\* serde_yaml::from_str (line 521): [kind, default_parameters, interactions,
\* name, path].  A text that is no document of a Conversation, a role that
\* is no Role and a key written twice are errors; a skipped field gets its
\* default.
deserialize_SkipName(data) ==
    LET entries == data.interactions
        keys == {entries[i].key : i \in 1..Len(entries)}
        Entry(k) == CHOOSE i \in 1..Len(entries) : entries[i].key = k
    IN  IF data.kind # "conversation" THEN [kind |-> "Serialization"]
        ELSE IF \/ Cardinality(keys) # Len(entries)
                \/ \E i \in 1..Len(entries) :
                      Role_deserialize(entries[i].value.role) = None
        THEN [kind |-> "Serialization"]
        ELSE [kind |-> "Ok",
              default_parameters |-> data.default_parameters,
              interactions |-> [k \in keys |->
                                  Message_deserialize(entries[Entry(k)].value)],
              name |-> "",
              path |-> ""]

deserialize(data) ==
    LET entries == data.interactions
        keys == {entries[i].key : i \in 1..Len(entries)}
        Entry(k) == CHOOSE i \in 1..Len(entries) : entries[i].key = k
    IN  IF data.kind # "conversation" THEN [kind |-> "Serialization"]
        ELSE IF \/ Cardinality(keys) # Len(entries)
                \/ \E i \in 1..Len(entries) :
                      Role_deserialize(entries[i].value.role) = None
        THEN [kind |-> "Serialization"]
        ELSE [kind |-> "Ok",
              default_parameters |-> data.default_parameters,
              interactions |-> [k \in keys |->
                                  Message_deserialize(entries[Entry(k)].value)],
              name |-> data.name,
              path |-> ""]

\* Conversation::load on the file system `fs`: [kind, default_parameters,
\* interactions, name, path].
Conversation_load_KeepPath(fs, load_path) ==
    IF fs[load_path] = None THEN [kind |-> "DirectoryIO"]
    ELSE deserialize(fs[load_path][1])

Conversation_load(fs, load_path) ==
    IF fs[load_path] = None THEN [kind |-> "DirectoryIO"]
    ELSE LET conversation == deserialize(fs[load_path][1])
         IN  IF conversation.kind # "Ok" THEN conversation
             ELSE [conversation EXCEPT !.path = load_path]

\* Files that no save has written: a text that is no conversation, and
\* conversations without root, with two roots, with a parent_id that is no
\* key and with a message without content.
TextFile == [kind |-> "text"]

StoredMessage(id, parent_id, index, role, content) ==
    [key |-> id,
     value |-> [id |-> id, parent_id |-> parent_id, index |-> index,
                role |-> role, content |-> content]]

NoRootFile ==
    [kind |-> "conversation", default_parameters |-> DefaultParameters,
     interactions |-> <<>>, name |-> ""]

TwoRootsFile ==
    [kind |-> "conversation", default_parameters |-> DefaultParameters,
     interactions |-> <<StoredMessage(1, None, 1, "system", "a"),
                        StoredMessage(2, None, 1, "system", "a")>>,
     name |-> ""]

DanglingParentFile ==
    [kind |-> "conversation", default_parameters |-> DefaultParameters,
     interactions |-> <<StoredMessage(1, None, 1, "system", "a"),
                        StoredMessage(2, Some(UnknownId), 1, "user", "a")>>,
     name |-> ""]

EmptyContentFile ==
    [kind |-> "conversation", default_parameters |-> DefaultParameters,
     interactions |-> <<StoredMessage(1, None, 1, "system", "")>>,
     name |-> ""]

ForeignFiles ==
    {TextFile, NoRootFile, TwoRootsFile, DanglingParentFile, EmptyContentFile}

\* ------------------------------------------------------------------- state
\* The record kept of the most recent call: the operation, its arguments
\* (id, contents; for do_completion the provider's choices), what became of
\* the provider call, the returned condition and the returned messages.
Ret(op, result, id, contents, choices, provider, messages) ==
    [op |-> op, result |-> result, id |-> id, contents |-> contents,
     choices |-> choices, provider |-> provider, messages |-> messages]

\* The record of a call that returns a value rather than messages.
RetValue(op, result, id, value) ==
    [op |-> op, result |-> result, id |-> id, contents |-> <<>>,
     choices |-> <<>>, provider |-> "not_invoked", messages |-> <<>>,
     value |-> value]

NoCall == Ret("none", "none", UnknownId, <<>>, <<>>, "not_invoked", <<>>)

\* The lists over S of length at most n.
Lists(S, n) == UNION {[1..k -> S] : k \in 0..n}

\* An ApplicationMessage; `text` is the String of PartialInput, Input and
\* StatusMessage and "" for the others.
ApplicationMessage(type, text) == [type |-> type, text |-> text]

\* Application::default().
Application_default ==
    [keep_running |-> TRUE, terminal |-> "none", sender |-> FALSE,
     status_queue |-> <<>>, loaded_conversations |-> <<>>,
     selected |-> None, conversation_scrolling |-> 0, current_input |-> ""]

\* The application before Application::start is called: `start`, `run` and
\* `input` are the positions of Application::start, of the render task and
\* of the input thread; `outbox` is the message the render task is sending
\* and `then` what it does after the send; `in_flight` is the completion the
\* provider has been asked for; `keys` counts the keys read.
TuiCreated ==
    [app |-> Application_default, channel |-> <<>>,
     start |-> "created", run |-> "idle", input |-> "idle",
     outbox |-> None, then |-> "continue", in_flight |-> None,
     partial_input |-> "", keys |-> 0, esc |-> FALSE]

Count == Cardinality(DOMAIN interactions)

Init ==
    /\ built = FALSE
    /\ interactions = <<>>
    /\ default_parameters = None
    /\ name = ""
    /\ path = ""
    /\ files = [p \in Paths |-> None]
    /\ iterators = <<>>
    /\ builder = EmptyBuilder
    /\ flat = None
    /\ tui = TuiCreated
    /\ pending = None
    /\ ret = NoCall
    /\ panicked = FALSE

\* A caller runs Conversation::build(parameters, path, system_message).
Build(parameters, new_path, system_message) ==
    /\ ~built /\ ~panicked
    /\ LET r == Conversation_build(system_message)
       IN  /\ built' = (r.kind = "Ok")
           /\ interactions' = r.tree
           /\ default_parameters' = IF r.kind = "Ok" THEN parameters ELSE None
           /\ ret' = Ret("build", r.kind, UnknownId, <<system_message>>, <<>>,
                         "not_invoked", <<>>)
           /\ path' = IF r.kind = "Ok" THEN new_path ELSE path
    /\ name' = ""
    /\ UNCHANGED <<pending, panicked, files, iterators, builder, flat,
                   tui>>

\* A caller runs conversation.add_queries(parent_id, queries).
AddQueries_Unborrowed(parent_id, queries, checked) ==
    /\ built /\ ~panicked /\ iterators = <<>>
    /\ LET r == add_queries(interactions, parent_id, queries, checked)
       IN  /\ interactions' = r.tree
           /\ panicked' = (r.kind = "Panic")
           /\ ret' = Ret("add_queries", r.kind, parent_id, queries, <<>>,
                         "not_invoked", r.messages)
    /\ UNCHANGED <<built, default_parameters, pending>>
    /\ UNCHANGED <<name, path, files, iterators, builder, flat,
                   tui>>

AddQueries(parent_id, queries, checked) ==
    /\ built /\ ~panicked /\ pending = None /\ iterators = <<>>
    /\ LET r == add_queries(interactions, parent_id, queries, checked)
       IN  /\ interactions' = r.tree
           /\ panicked' = (r.kind = "Panic")
           /\ ret' = Ret("add_queries", r.kind, parent_id, queries, <<>>,
                         "not_invoked", r.messages)
    /\ UNCHANGED <<built, default_parameters, pending>>
    /\ UNCHANGED <<name, path, files, iterators, builder, flat,
                   tui>>

\* Code of the module (its tests) runs the private
\* conversation.add_children_to_message(parent_id, messages, role).
AddChildren(parent_id, messages, role, checked) ==
    /\ built /\ ~panicked /\ pending = None /\ iterators = <<>>
    /\ LET r == add_children_to_message(interactions, parent_id, messages, role,
                                        checked)
       IN  /\ interactions' = r.tree
           /\ panicked' = (r.kind = "Panic")
           /\ ret' = Ret("add_children_to_message", r.kind, parent_id, messages,
                         <<>>, "not_invoked", Lookup(r.tree, r.ids))
    /\ UNCHANGED <<built, default_parameters, pending>>
    /\ UNCHANGED <<name, path, files, iterators, builder, flat,
                   tui>>

\* A caller runs conversation.do_completion(message_id, client,
\* n_completions): the call
\* either returns an error at once or is suspended on the provider, holding
\* the exclusive borrow of the conversation.
DoCompletion(message_id, n_completions) ==
    /\ built /\ ~panicked /\ pending = None /\ iterators = <<>>
    /\ LET r == do_completion_request(interactions, message_id)
       IN  IF r.kind = "Ok"
           THEN /\ pending' = Some([message_id |-> message_id,
                                    messages |-> r.messages,
                                    n_completions |-> n_completions,
                                    request |-> completion_request(
                                        completion_parameters(default_parameters,
                                                              n_completions),
                                        r.messages)])
                /\ ret' = Ret("do_completion", "Pending", message_id, <<>>, <<>>,
                              "invoked", <<>>)
           ELSE /\ pending' = None
                /\ ret' = Ret("do_completion", r.kind, message_id, <<>>, <<>>,
                              "not_invoked", <<>>)
    /\ UNCHANGED <<built, interactions, default_parameters, panicked>>
    /\ UNCHANGED <<name, path, files, iterators, builder, flat,
                   tui>>

\* The provider answers with `choices`; do_completion resumes and returns.
ProviderRespond(choices, checked) ==
    /\ pending # None /\ ~panicked
    /\ LET r == do_completion_response(interactions, pending[1].message_id,
                                       choices, checked)
       IN  /\ interactions' = r.tree
           /\ panicked' = (r.kind = "Panic")
           /\ ret' = Ret("do_completion", r.kind, pending[1].message_id,
                         Responses(choices), choices, "ok", r.messages)
    /\ pending' = None
    /\ UNCHANGED <<built, default_parameters>>
    /\ UNCHANGED <<name, path, files, iterators, builder, flat,
                   tui>>

\* The provider call fails; `?` at line 458 returns the error.
ProviderFail ==
    /\ pending # None /\ ~panicked
    /\ ret' = Ret("do_completion", "ClientError", pending[1].message_id, <<>>,
                  <<>>, "failed", <<>>)
    /\ pending' = None
    /\ UNCHANGED <<built, interactions, default_parameters, panicked>>
    /\ UNCHANGED <<name, path, files, iterators, builder, flat,
                   tui>>

\* The suspended future is dropped at its await point.
CancelCompletion ==
    /\ pending # None /\ ~panicked
    /\ ret' = Ret("do_completion", "Cancelled", pending[1].message_id, <<>>,
                  <<>>, "cancelled", <<>>)
    /\ pending' = None
    /\ UNCHANGED <<built, interactions, default_parameters, panicked>>
    /\ UNCHANGED <<name, path, files, iterators, builder, flat,
                   tui>>

\* A caller runs conversation.get_latest_messages() and gets one of the
\* lists the iteration orders of the HashMap give.  The read calls borrow the
\* conversation, so none runs while do_completion is suspended.
GetLatestMessages ==
    /\ built /\ ~panicked /\ pending = None
    /\ \E messages \in {get_latest_messages(interactions, order) :
                            order \in HashMapOrders(interactions)} :
          ret' = Ret("get_latest_messages", "Ok", UnknownId, <<>>, <<>>,
                     "not_invoked", messages)
    /\ UNCHANGED <<built, interactions, default_parameters, pending, panicked>>
    /\ UNCHANGED <<name, path, files, iterators, builder, flat,
                   tui>>

\* A caller runs conversation.get_message_list(anchor_message_id); the
\* record keeps the Option in its id field.  The HashMap is iterated only
\* when no anchor is given.
GetMessageList(anchor_message_id) ==
    /\ built /\ ~panicked /\ pending = None
    /\ \E root \in {get_root_message(interactions, order) :
                        order \in IF anchor_message_id = None
                                  THEN HashMapOrders(interactions)
                                  ELSE {IdSeq(interactions)}} :
       LET r == get_message_list(interactions, anchor_message_id, root)
       IN  /\ ret' = Ret("get_message_list", r.kind, anchor_message_id, <<>>,
                         <<>>, "not_invoked", r.messages)
           /\ panicked' = (r.kind = "Panic")
    /\ UNCHANGED <<built, interactions, default_parameters, pending>>
    /\ UNCHANGED <<name, path, files, iterators, builder, flat,
                   tui>>

\* A caller runs conversation.get_message_siblings(message_id).
GetMessageSiblings(message_id) ==
    /\ built /\ ~panicked /\ pending = None
    /\ LET r == get_message_siblings(interactions, message_id)
       IN  ret' = Ret("get_message_siblings", r.kind, message_id, <<>>, <<>>,
                      "not_invoked", r.messages)
    /\ UNCHANGED <<built, interactions, default_parameters, pending, panicked>>
    /\ UNCHANGED <<name, path, files, iterators, builder, flat,
                   tui>>

\* A caller runs conversation.iter().  The iterator borrows the conversation:
\* while one is alive no call changes the conversation.
Iter ==
    /\ built /\ ~panicked /\ pending = None
    /\ \E root \in {get_root_message(interactions, order) :
                        order \in FrontOrders(interactions)} :
       LET r == Conversation_iter(root)
       IN  /\ iterators' = IF r.kind = "Ok"
                           THEN Append(iterators,
                                       [current_stack |-> r.current_stack,
                                        yielded |-> <<>>])
                           ELSE iterators
           /\ panicked' = (r.kind = "Panic")
           /\ ret' = RetValue("iter", r.kind, Len(iterators) + 1, None)
    /\ UNCHANGED <<built, interactions, default_parameters, pending, name, path,
                   files, builder, flat,
                   tui>>

\* A caller runs next() on iterator `h`; `yielded` keeps what the iterator has
\* returned so far.
IterNext_SharedStack(h) ==
    /\ h \in 1..Len(iterators) /\ ~panicked
    /\ LET r == ConversationIter_next(interactions, iterators[h].current_stack)
       IN  /\ iterators' = [g \in 1..Len(iterators) |->
                              [current_stack |-> r.current_stack,
                               yielded |-> IF g = h
                                           THEN iterators[g].yielded \o r.item
                                           ELSE iterators[g].yielded]]
           /\ ret' = RetValue("next", "Ok", h, r.item)
    /\ UNCHANGED <<built, interactions, default_parameters, pending, panicked,
                   name, path, files, builder, flat,
                   tui>>

IterNext(h) ==
    /\ h \in 1..Len(iterators) /\ ~panicked
    /\ LET r == ConversationIter_next(interactions, iterators[h].current_stack)
       IN  /\ iterators' = [iterators EXCEPT ![h] =
                              [current_stack |-> r.current_stack,
                               yielded |-> @.yielded \o r.item]]
           /\ ret' = RetValue("next", "Ok", h, r.item)
    /\ UNCHANGED <<built, interactions, default_parameters, pending, panicked,
                   name, path, files, builder, flat,
                   tui>>

\* Iterator `h` is dropped.
IterDrop(h) ==
    /\ h \in 1..Len(iterators) /\ ~panicked
    /\ iterators' = SubSeq(iterators, 1, h - 1)
                        \o SubSeq(iterators, h + 1, Len(iterators))
    /\ UNCHANGED <<built, interactions, default_parameters, pending, ret,
                   panicked, name, path, files, builder, flat,
                   tui>>

\* ---- The flat Conversation of lib.rs ----

\* ConversationParametersBuilder::default().build(): the defaults of the
\* fields, the temperature in tenths.
ConversationParameters_default ==
    [temperature |-> 10, n |-> 1, model |-> "gpt-3.5-turbo",
     max_tokens |-> 256, system_message |-> "You are a helpful assistant"]

\* A path is the sequence of its components; the manager's directory is
\* "dir" and PathBuf::new() is the empty path.
base_path == <<"dir">>

conversation_path(conversation) == base_path \o <<conversation>>

\* path.file_name().unwrap_or_default().to_str().unwrap_or_default().
file_name(file_path) ==
    IF file_path = <<>> THEN "" ELSE file_path[Len(file_path)]

\* Conversation::new of lib.rs; `client` tells whether a client was given.
Conversation_new(parameters, file_path, client) ==
    [parameters |-> parameters, interactions |-> <<>>, updated |-> TRUE,
     path |-> file_path, name |-> file_name(file_path), client |-> client]

\* Conversation::add_query of lib.rs: [kind, self].
add_query_Unchecked(self, message) ==
    [kind |-> "Ok",
     self |-> [self EXCEPT
                 !.updated = TRUE,
                 !.interactions =
                     Append(@, [role |-> "User", content |-> message])]]

add_query(self, message) ==
    LET l == self.interactions
    IN  IF l # <<>> /\ l[Len(l)].role = "User"
        THEN [kind |-> "LastMessageFromUser", self |-> self]
        ELSE [kind |-> "Ok",
              self |-> [self EXCEPT
                          !.updated = TRUE,
                          !.interactions =
                              Append(@, [role |-> "User",
                                         content |-> message])]]

\* The roles of the answers of the provider: a chat completion answers as
\* the assistant.
AnswerRoles == {"Assistant"}

\* What the call of the provider gives: an error, or a response of some
\* choices, each a role and an optional content.
LibResponses ==
    {[kind |-> "error", choices |-> <<>>]} \cup
    {[kind |-> "ok", choices |-> c] :
        c \in Lists([role : AnswerRoles, content : {None, Some("a")}],
                    MaxChoices)}

\* Conversation::do_completion of lib.rs, run to its end with the response
\* of the provider: [kind, self].
lib_do_completion(self, response) ==
    LET l == self.interactions
    IN  IF ~self.client THEN [kind |-> "NoClientSpecified", self |-> self]
        ELSE IF l = <<>> \/ l[Len(l)].role # "User"
        THEN [kind |-> "NoQueryGiven", self |-> self]
        ELSE IF response.kind = "error"
        THEN [kind |-> "ClientError", self |-> self]
        ELSE IF Len(response.choices) > 1
        THEN [kind |-> "Panic", self |-> self]
        ELSE IF response.choices # <<>>
        THEN LET answer == response.choices[1]
             IN  [kind |-> "Ok",
                  self |-> [self EXCEPT
                              !.interactions =
                                  Append(@, [role |-> answer.role,
                                             content |->
                                                IF answer.content = None
                                                THEN ""
                                                ELSE answer.content[1]]),
                              !.updated = TRUE]]
        ELSE [kind |-> "ResponseError", self |-> self]

\* What serde writes of a flat conversation: the parameters and the
\* interactions; updated, path, name and client are skipped.
lib_serialize(self) ==
    [kind |-> "flat_conversation", parameters |-> self.parameters,
     interactions |->
        [i \in 1..Len(self.interactions) |->
            [role |-> Role_serialize(self.interactions[i].role),
             content |-> self.interactions[i].content]]]

\* What serde reads of a document: a flat conversation whose skipped fields
\* have their defaults, or an error.
lib_deserialize(data) ==
    IF data.kind # "flat_conversation" THEN [kind |-> "Serialization"]
    ELSE IF \E i \in 1..Len(data.interactions) :
                Role_deserialize(data.interactions[i].role) = None
    THEN [kind |-> "Serialization"]
    ELSE [kind |-> "Ok",
          self |-> [parameters |-> data.parameters,
                    interactions |->
                       [i \in 1..Len(data.interactions) |->
                           [role |->
                              Role_deserialize(data.interactions[i].role)[1],
                            content |-> data.interactions[i].content]],
                    updated |-> FALSE, path |-> <<>>, name |-> "",
                    client |-> FALSE]]

\* Conversation::mark_updated: the conversation no longer needs saving.
mark_updated_SetsTrue(self) == [self EXCEPT !.updated = TRUE]

mark_updated(self) == [self EXCEPT !.updated = FALSE]

\* ConversationManager::load_conversation: [kind, self].
load_conversation(fs, conversation_name) ==
    IF fs[conversation_name] = None THEN [kind |-> "DirectoryIO"]
    ELSE LET r == lib_deserialize(fs[conversation_name][1])
         IN  IF r.kind # "Ok" THEN r
             ELSE [kind |-> "Ok",
                   self |-> mark_updated(
                               [r.self EXCEPT
                                  !.client = TRUE,
                                  !.path = conversation_path(conversation_name),
                                  !.name = conversation_name])]

\* A caller makes a flat conversation with Conversation::new.
LibNew(parameters, file_path, client) ==
    /\ flat = None /\ ~panicked
    /\ flat' = Some(Conversation_new(parameters, file_path, client))
    /\ ret' = RetValue("new", "Ok", UnknownId, file_path)
    /\ UNCHANGED <<built, interactions, pending, default_parameters,
                   panicked, name, path, files, iterators, builder,
                   tui>>

\* A caller runs conversation.add_query(message) on the flat conversation.
LibAddQuery(message) ==
    /\ flat # None /\ ~panicked
    /\ LET r == add_query(flat[1], message)
       IN  /\ flat' = Some(r.self)
           /\ ret' = [RetValue("add_query", r.kind, UnknownId, <<>>)
                         EXCEPT !.contents = <<message>>]
    /\ UNCHANGED <<built, interactions, pending, default_parameters,
                   panicked, name, path, files, iterators, builder,
                   tui>>

\* A caller runs conversation.do_completion() on the flat conversation to
\* its end; the conversation is borrowed for the whole call, so that no
\* other call comes in between.
LibDoCompletion(response) ==
    /\ flat # None /\ ~panicked
    /\ LET r == lib_do_completion(flat[1], response)
       IN  /\ flat' = Some(r.self)
           /\ panicked' = (r.kind = "Panic")
           /\ ret' = RetValue("lib_do_completion", r.kind, UnknownId,
                              response)
    /\ UNCHANGED <<built, interactions, pending, default_parameters,
                   name, path, files, iterators, builder,
                   tui>>

\* A caller runs manager.save_conversation(conversation): nothing is done
\* for a conversation that has not changed; fs::write fails on the empty
\* path and may fail on any other.
LibSaveConversation(io) ==
    /\ flat # None /\ ~panicked
    /\ LET self == flat[1]
           written == io = "ok" /\ file_name(self.path) \in Paths
       IN  IF ~self.updated
           THEN /\ ret' = RetValue("save_conversation", "Ok", UnknownId, None)
                /\ UNCHANGED <<flat, files>>
           ELSE IF written
           THEN /\ files' = [files EXCEPT ![file_name(self.path)] =
                                              Some(lib_serialize(self))]
                /\ flat' = Some(mark_updated(self))
                /\ ret' = RetValue("save_conversation", "Ok", UnknownId,
                                   Some(lib_serialize(self)))
           ELSE /\ ret' = RetValue("save_conversation", "WriteConversation",
                                   UnknownId, None)
                /\ UNCHANGED <<flat, files>>
    /\ UNCHANGED <<built, interactions, pending, default_parameters,
                   panicked, name, path, iterators, builder,
                   tui>>

\* A caller runs manager.new_conversation(parameters); the name is the time
\* of the call.
LibNewConversation(parameters, conversation_name) ==
    /\ flat = None /\ ~panicked
    /\ flat' = Some(Conversation_new(parameters,
                                     conversation_path(conversation_name),
                                     TRUE))
    /\ ret' = RetValue("new_conversation", "Ok", UnknownId, conversation_name)
    /\ UNCHANGED <<built, interactions, pending, default_parameters,
                   panicked, name, path, files, iterators, builder,
                   tui>>

\* A caller runs manager.load_conversation(conversation_name) and, when it
\* succeeds, goes on with the loaded conversation in place of the one it had.
LibLoadConversation(conversation_name) ==
    /\ ~panicked
    /\ LET r == load_conversation(files, conversation_name)
       IN  /\ flat' = IF r.kind = "Ok" THEN Some(r.self) ELSE flat
           /\ ret' = RetValue("load_conversation", r.kind, UnknownId,
                              conversation_name)
    /\ UNCHANGED <<built, interactions, pending, default_parameters,
                   panicked, name, path, files, iterators, builder,
                   tui>>

\* A caller runs conversation.has_changed().
LibHasChanged ==
    /\ flat # None /\ ~panicked
    /\ ret' = RetValue("has_changed", "Ok", UnknownId, flat[1].updated)
    /\ UNCHANGED <<built, interactions, pending, default_parameters,
                   panicked, name, path, files, iterators, builder, flat,
                   tui>>

\* ---- The terminal application of tui.rs ----

\* The render task holds the receiver of the channel until it ends.
ReceiverAlive(t) == t.run \in {"setup", "loop", "recv", "send", "completion"}

\* String::push of the character a and String::pop, on the inputs of the
\* model.
String_push(text) ==
    CASE text = "" -> "a"
      [] text = "a" -> "aa"
      [] OTHER -> text

String_pop(text) ==
    CASE text = "aa" -> "a"
      [] OTHER -> ""

\* The message the input thread sends for a key, and its partial input
\* afterwards: [message, partial_input]; Esc also ends the thread.
handle_input_key(key, partial_input) ==
    CASE key = "Esc" ->
            [message |-> ApplicationMessage("Quit", ""),
             partial_input |-> partial_input]
      [] key = "Up" ->
            [message |-> ApplicationMessage("ScrollBack", ""),
             partial_input |-> partial_input]
      [] key = "Down" ->
            [message |-> ApplicationMessage("ScrollForward", ""),
             partial_input |-> partial_input]
      [] key = "ShiftDown" ->
            [message |-> ApplicationMessage("NextConversation", ""),
             partial_input |-> partial_input]
      [] key = "ShiftUp" ->
            [message |-> ApplicationMessage("PreviousConversation", ""),
             partial_input |-> partial_input]
      [] key = "Char" ->
            [message |-> ApplicationMessage("PartialInput",
                                            String_push(partial_input)),
             partial_input |-> String_push(partial_input)]
      [] key = "Backspace" ->
            [message |-> ApplicationMessage("PartialInput",
                                            String_pop(partial_input)),
             partial_input |-> String_pop(partial_input)]
      [] key = "Enter" ->
            [message |-> ApplicationMessage("Input", partial_input),
             partial_input |-> ""]

Keys ==
    {"Esc", "Up", "Down", "ShiftDown", "ShiftUp", "Char", "Backspace", "Enter"}

\* Application::update: the oldest status is dropped when five seconds have
\* passed since the last drop; the set of the outcomes.
update(app) ==
    IF app.status_queue = <<>> THEN {app}
    ELSE {app, [app EXCEPT !.status_queue = Tail(@)]}

\* find_conversations: the conversations that load, in the order read_dir
\* gives the files; the set of the outcomes.
find_conversations(fs) ==
    {LET loads == SelectSeq(order,
                            LAMBDA p : Conversation_load(fs, p).kind = "Ok")
     IN  [i \in 1..Len(loads) |->
            LET r == Conversation_load(fs, loads[i])
            IN  [interactions |-> r.interactions,
                 default_parameters |-> r.default_parameters,
                 name |-> r.name, path |-> r.path]] :
     order \in Arrangements(Paths)}

LoadedText(n) ==
    CASE n = 0 -> "Loaded 0 conversations"
      [] n = 1 -> "Loaded 1 conversations"
      [] OTHER -> "Loaded 2 conversations"

\* The selection after NextConversation: [kind, selected]; the remainder by
\* zero panics, and so does the overflow of id + 1 where overflow is checked.
NextConversation(selected, len, checked) ==
    IF selected = None THEN [kind |-> "Ok", selected |-> Some(0)]
    ELSE IF selected[1] = usize_MAX /\ checked THEN [kind |-> "Panic"]
    ELSE IF len = 0 THEN [kind |-> "Panic"]
    ELSE [kind |-> "Ok",
          selected |-> Some((IF selected[1] = usize_MAX THEN 0
                             ELSE selected[1] + 1) % len)]

\* The selection after PreviousConversation: [kind, selected]; the argument
\* of unwrap_or, len - 1, is computed before checked_sub is looked at, and
\* with no conversation it panics where overflow is checked and is
\* usize::MAX where it is not.
PreviousConversation(selected, len, checked) ==
    IF selected = None THEN [kind |-> "Ok", selected |-> Some(0)]
    ELSE IF len = 0 /\ checked THEN [kind |-> "Panic"]
    ELSE LET default == IF len = 0 THEN usize_MAX ELSE len - 1
         IN  [kind |-> "Ok",
              selected |-> Some(IF selected[1] = 0 THEN default
                                ELSE selected[1] - 1)]

\* Application::current_selected_conversation: the position of the selected
\* conversation in loaded_conversations (from 1), if there is one.
current_selected_conversation(app) ==
    IF app.selected = None THEN None
    ELSE IF app.selected[1] >= Len(app.loaded_conversations) THEN None
    ELSE Some(app.selected[1] + 1)

\* What the render task does with a message it has received: the set of the
\* outcomes, each the application with the task at its next position.
Application_handle(t, msg, fs) ==
    LET app == t.app
        Continue(a) == [t EXCEPT !.app = a, !.run = "loop"]
        Send(a, m, after) ==
            [t EXCEPT !.app = a, !.run = "send", !.outbox = Some(m),
                      !.then = after]
        Status(a, text) ==
            Send(a, ApplicationMessage("StatusMessage", text), "continue")
        Panic(a) == [t EXCEPT !.app = a, !.run = "panicked"]
    IN  CASE msg.type = "Quit" ->
                {Continue([app EXCEPT !.keep_running = FALSE])}
          [] msg.type = "Heartbeat" -> {Continue(a) : a \in update(app)}
          [] msg.type = "ApplicationStart" ->
                {Send(app, ApplicationMessage("LoadConversations", ""),
                      "continue")}
          [] msg.type = "LoadConversations" ->
                {Send([app EXCEPT !.loaded_conversations = loaded],
                      ApplicationMessage("StatusMessage",
                                         LoadedText(Len(loaded))),
                      "select_first") :
                 loaded \in find_conversations(fs)}
          [] msg.type = "StatusMessage" ->
                {Continue([app EXCEPT
                             !.status_queue = Append(@, msg.text)])}
          [] msg.type = "NextConversation" ->
                {LET r == NextConversation(app.selected,
                                           Len(app.loaded_conversations),
                                           checked)
                 IN  IF r.kind = "Panic" THEN Panic(app)
                     ELSE Continue([app EXCEPT
                                      !.selected = r.selected,
                                      !.conversation_scrolling = 0]) :
                 checked \in BOOLEAN}
          [] msg.type = "PreviousConversation" ->
                {LET r == PreviousConversation(app.selected,
                                               Len(app.loaded_conversations),
                                               checked)
                 IN  IF r.kind = "Panic" THEN Panic(app)
                     ELSE Continue([app EXCEPT
                                      !.selected = r.selected,
                                      !.conversation_scrolling = 0]) :
                 checked \in BOOLEAN}
          [] msg.type = "ScrollForward" ->
                {Continue([app EXCEPT
                             !.conversation_scrolling =
                                 IF @ = u16_MAX THEN @ ELSE @ + 1])}
          [] msg.type = "ScrollBack" ->
                {Continue([app EXCEPT
                             !.conversation_scrolling =
                                 IF @ = 0 THEN @ ELSE @ - 1])}
          [] msg.type = "PartialInput" ->
                {Continue([app EXCEPT !.current_input = msg.text])}
          [] msg.type = "Input" ->
                LET a == [app EXCEPT !.current_input = ""]
                    c == current_selected_conversation(a)
                IN  IF c = None
                    THEN {Status(a, "Error retrieving current conversation")}
                    ELSE IF DOMAIN a.loaded_conversations[c[1]].interactions
                                = {}
                    THEN {Status(a,
                                 "Error while getting conversation messages")}
                    ELSE
                    {LET tree == a.loaded_conversations[c[1]].interactions
                         latest_messages == get_latest_messages(tree, order)
                         last_message ==
                             latest_messages[Len(latest_messages)]
                         r == add_queries(tree, last_message.id,
                                          <<msg.text>>, checked)
                         added == [a EXCEPT
                                     !.loaded_conversations[c[1]].interactions
                                         = r.tree]
                     IN  IF r.kind = "Panic" THEN Panic(a)
                         ELSE IF r.kind # "Ok"
                         THEN Status(a, "Error while completing conversation")
                         ELSE LET query_message == r.messages[Len(r.messages)]
                                  d == do_completion_request(r.tree,
                                                             query_message.id)
                              IN  IF d.kind # "Ok"
                                  THEN Status(added,
                                     "Error while communicating with ChatGPT")
                                  ELSE [t EXCEPT
                                          !.app = added,
                                          !.run = "completion",
                                          !.in_flight =
                                              Some([conversation |-> c[1],
                                                    message_id |->
                                                       query_message.id])] :
                     order \in HashMapOrders(
                                 a.loaded_conversations[c[1]].interactions),
                     checked \in BOOLEAN}

\* What render does with the selected conversation, conversation_widget
\* calling get_message_list(None): "Ok", or "Panic" for a conversation
\* without root; the set of the outcomes.
render(app) ==
    IF app.selected = None
       \/ app.selected[1] >= Len(app.loaded_conversations)
    THEN {"Ok"}
    ELSE LET tree == app.loaded_conversations[app.selected[1] + 1].interactions
         IN  IF DOMAIN tree = {} THEN {"Panic"}
             ELSE {IF get_message_list(tree, None,
                                       get_root_message(tree, order)).kind
                        = "Panic"
                   THEN "Panic" ELSE "Ok" : order \in FrontOrders(tree)}

\* Application::start is called: the channel is made and the input thread
\* and the render task are spawned.
AppStart ==
    /\ tui.start = "created"
    /\ tui' = [tui EXCEPT !.start = "send", !.run = "setup",
                          !.input = "running"]
    /\ UNCHANGED <<built, interactions, default_parameters, pending, ret,
                   panicked, name, path, files, iterators, builder, flat>>

\* start sends ApplicationStart, waiting while the channel is full; the
\* result of the send is dropped.
AppStartSend ==
    /\ tui.start = "send"
    /\ \/ /\ ReceiverAlive(tui) /\ Len(tui.channel) < ChannelCapacity
          /\ tui' = [tui EXCEPT
                       !.start = "select",
                       !.channel = Append(@, ApplicationMessage(
                                                "ApplicationStart", ""))]
       \/ /\ ~ReceiverAlive(tui)
          /\ tui' = [tui EXCEPT !.start = "select"]
    /\ UNCHANGED <<built, interactions, default_parameters, pending, ret,
                   panicked, name, path, files, iterators, builder, flat>>

\* The select of start returns when the render task or the input thread has
\* ended, and start returns Ok.
AppStartReturn ==
    /\ tui.start = "select"
    /\ tui.run \in {"done", "panicked"} \/ tui.input = "done"
    /\ tui' = [tui EXCEPT !.start = "returned"]
    /\ UNCHANGED <<built, interactions, default_parameters, pending, ret,
                   panicked, name, path, files, iterators, builder, flat>>

\* After start has returned the runtime shuts down: a render task that is
\* waiting (for a message, for room in the channel, for the provider) is
\* dropped where it waits.
RuntimeShutdown ==
    /\ tui.start = "returned"
    /\ tui.run \in {"recv", "send", "completion"}
    /\ tui' = [tui EXCEPT !.run = "dropped", !.in_flight = None]
    /\ UNCHANGED <<built, interactions, default_parameters, pending, ret,
                   panicked, name, path, files, iterators, builder, flat>>

\* run saves the sender and sets the terminal up.
RunSetup ==
    /\ tui.run = "setup"
    /\ tui' = [tui EXCEPT !.app.sender = TRUE, !.app.terminal = "raw",
                          !.run = "loop"]
    /\ UNCHANGED <<built, interactions, default_parameters, pending, ret,
                   panicked, name, path, files, iterators, builder, flat>>

\* The head of the loop of run: while keep_running the scene is rendered and
\* the task goes on to receive; otherwise the terminal is restored and run
\* returns.
RunLoop ==
    /\ tui.run = "loop"
    /\ IF tui.app.keep_running
       THEN \E outcome \in render(tui.app) :
               tui' = [tui EXCEPT !.run = IF outcome = "Panic"
                                          THEN "panicked" ELSE "recv"]
       ELSE tui' = [tui EXCEPT !.app.terminal = "restored", !.run = "done"]
    /\ UNCHANGED <<built, interactions, default_parameters, pending, ret,
                   panicked, name, path, files, iterators, builder, flat>>

\* The render task receives the oldest message of the channel and handles
\* it, up to the point where it sends a message or waits for the provider.
RunRecv ==
    /\ tui.run = "recv" /\ tui.channel # <<>>
    /\ \E next \in Application_handle(
                      [tui EXCEPT !.channel = Tail(@)], Head(tui.channel),
                      files) :
          tui' = next
    /\ UNCHANGED <<built, interactions, default_parameters, pending, ret,
                   panicked, name, path, files, iterators, builder, flat>>

\* The send of the render task completes, the channel having room; after
\* the status of refresh_conversations the first conversation is selected.
RunSend ==
    /\ tui.run = "send" /\ Len(tui.channel) < ChannelCapacity
    /\ tui' = [tui EXCEPT
                 !.channel = Append(@, tui.outbox[1]),
                 !.outbox = None,
                 !.then = "continue",
                 !.app.selected = IF tui.then = "select_first" THEN Some(0)
                                  ELSE @,
                 !.run = "loop"]
    /\ UNCHANGED <<built, interactions, default_parameters, pending, ret,
                   panicked, name, path, files, iterators, builder, flat>>

\* The provider answers the completion in flight with `choices`;
\* do_completion resumes and the render task goes on to send the status.
RunProviderRespond(choices, checked) ==
    /\ tui.run = "completion"
    /\ LET c == tui.in_flight[1].conversation
           r == do_completion_response(
                    tui.app.loaded_conversations[c].interactions,
                    tui.in_flight[1].message_id, choices, checked)
       IN  tui' = IF r.kind = "Panic"
                  THEN [tui EXCEPT !.run = "panicked", !.in_flight = None]
                  ELSE [tui EXCEPT
                          !.app.loaded_conversations[c].interactions = r.tree,
                          !.in_flight = None,
                          !.run = "send",
                          !.then = "continue",
                          !.outbox = Some(ApplicationMessage(
                              "StatusMessage",
                              IF r.kind = "Ok"
                              THEN "Completion finished successfully"
                              ELSE "Error while communicating with ChatGPT"))]
    /\ UNCHANGED <<built, interactions, default_parameters, pending, ret,
                   panicked, name, path, files, iterators, builder, flat>>

\* The call of the provider fails; do_completion returns the error and the
\* render task goes on to send the status.
RunProviderFail ==
    /\ tui.run = "completion"
    /\ tui' = [tui EXCEPT
                 !.in_flight = None,
                 !.run = "send",
                 !.then = "continue",
                 !.outbox = Some(ApplicationMessage(
                     "StatusMessage",
                     "Error while communicating with ChatGPT"))]
    /\ UNCHANGED <<built, interactions, default_parameters, pending, ret,
                   panicked, name, path, files, iterators, builder, flat>>

\* The input thread reads a key and sends its message with blocking_send,
\* which waits while the channel is full; after Esc the thread ends.
InputKey(key) ==
    /\ tui.input = "running" /\ ReceiverAlive(tui)
    /\ Len(tui.channel) < ChannelCapacity
    /\ LET r == handle_input_key(key, tui.partial_input)
       IN  tui' = [tui EXCEPT
                     !.channel = Append(@, r.message),
                     !.partial_input = r.partial_input,
                     !.keys = @ + 1,
                     !.esc = @ \/ key = "Esc",
                     !.input = IF key = "Esc" THEN "done" ELSE @]
    /\ UNCHANGED <<built, interactions, default_parameters, pending, ret,
                   panicked, name, path, files, iterators, builder, flat>>

\* A tenth of a second has passed: the input thread sends Heartbeat.
InputHeartbeat ==
    /\ tui.input = "running" /\ ReceiverAlive(tui)
    /\ Len(tui.channel) < ChannelCapacity
    /\ tui' = [tui EXCEPT
                 !.channel = Append(@, ApplicationMessage("Heartbeat", ""))]
    /\ UNCHANGED <<built, interactions, default_parameters, pending, ret,
                   panicked, name, path, files, iterators, builder, flat>>

\* The render task has ended and its receiver is gone: the send of the
\* input thread fails and the thread returns the error.
InputSendFails ==
    /\ tui.input = "running" /\ ~ReceiverAlive(tui)
    /\ tui.run # "idle"
    /\ tui' = [tui EXCEPT !.input = "done"]
    /\ UNCHANGED <<built, interactions, default_parameters, pending, ret,
                   panicked, name, path, files, iterators, builder, flat>>

\* A caller starts over with CompletionParametersBuilder::default().
BuilderDefault ==
    /\ builder' = EmptyBuilder
    /\ UNCHANGED <<built, interactions, pending, default_parameters, ret,
                   panicked, name, path, files, iterators, flat,
                   tui>>

\* A caller runs one setter of the builder: temperature, n, model or
\* max_tokens.
BuilderSet(field, new_value) ==
    /\ builder' = [builder EXCEPT ![field] = <<new_value>>]
    /\ UNCHANGED <<built, interactions, pending, default_parameters, ret,
                   panicked, name, path, files, iterators, flat,
                   tui>>

\* A caller runs builder.build(); the record keeps the builder and the
\* parameters built in `value`.
BuilderBuild ==
    /\ LET r == CompletionParametersBuilder_build(builder)
       IN  ret' = RetValue("CompletionParametersBuilder_build", r.kind,
                           UnknownId,
                           [builder |-> builder, parameters |-> r.parameters])
    /\ UNCHANGED <<built, interactions, pending, default_parameters,
                   panicked, name, path, files, iterators, builder, flat,
                   tui>>

\* A caller runs conversation.name().
GetName_Taking ==
    /\ built /\ ~panicked /\ pending = None
    /\ ret' = RetValue("name", "Ok", UnknownId, name)
    /\ name' = ""
    /\ UNCHANGED <<built, interactions, default_parameters, pending, panicked,
                   path, files, iterators, builder, flat,
                   tui>>

GetName ==
    /\ built /\ ~panicked /\ pending = None
    /\ ret' = RetValue("name", "Ok", UnknownId, name)
    /\ UNCHANGED <<built, interactions, default_parameters, pending, panicked,
                   name, path, files, iterators, builder, flat,
                   tui>>

\* A caller runs conversation.set_name(new_name); the record keeps the
\* argument in `contents` and the returned name in `value`.
SetName_ReturnsNew(new_name) ==
    /\ built /\ ~panicked /\ pending = None /\ iterators = <<>>
    /\ name' = new_name
    /\ ret' = [RetValue("set_name", "Ok", UnknownId, new_name)
                  EXCEPT !.contents = <<new_name>>]
    /\ UNCHANGED <<built, interactions, default_parameters, pending, panicked,
                   path, files, iterators, builder, flat,
                   tui>>

SetName(new_name) ==
    /\ built /\ ~panicked /\ pending = None /\ iterators = <<>>
    /\ name' = new_name
    /\ ret' = [RetValue("set_name", "Ok", UnknownId, name)
                  EXCEPT !.contents = <<new_name>>]
    /\ UNCHANGED <<built, interactions, default_parameters, pending, panicked,
                   path, files, iterators, builder, flat,
                   tui>>

\* A caller runs conversation.save() to the end.  fs::write either writes the
\* text, or fails before it has touched the file, or fails after it has
\* truncated the file and written a part of the text.  The record keeps the
\* path and the text written in `value`.
Save(order, io) ==
    /\ built /\ ~panicked /\ pending = None
    /\ LET data == serialize(default_parameters, interactions, name, order)
       IN  /\ files' = CASE io = "ok" -> [files EXCEPT ![path] = Some(data)]
                         [] io = "failed" -> files
                         [] io = "partial" ->
                              [files EXCEPT ![path] = Some(TextFile)]
           /\ ret' = RetValue("save",
                              IF io = "ok" THEN "Ok" ELSE "DirectoryIO",
                              UnknownId,
                              [path |-> path,
                               data |-> IF io = "ok" THEN Some(data) ELSE None])
    /\ UNCHANGED <<built, interactions, default_parameters, pending, panicked,
                   name, path, iterators, builder, flat,
                   tui>>

\* A caller runs Conversation::load(load_path) to the end and, when it
\* succeeds, goes on with the loaded conversation in place of the one it had.
\* The record keeps the path and the text read in `value`.
Load(load_path) ==
    /\ ~panicked /\ pending = None /\ iterators = <<>>
    /\ LET r == Conversation_load(files, load_path)
       IN  /\ ret' = RetValue("load", r.kind, UnknownId,
                              [path |-> load_path, data |-> files[load_path]])
           /\ IF r.kind = "Ok"
              THEN /\ built' = TRUE
                   /\ interactions' = r.interactions
                   /\ default_parameters' = r.default_parameters
                   /\ name' = r.name
                   /\ path' = r.path
              ELSE UNCHANGED <<built, interactions, default_parameters, name,
                               path>>
    /\ UNCHANGED <<pending, panicked, files, iterators, builder, flat,
                   tui>>

\* Something other than save writes the file at `file_path`.
ForeignWrite(file_path, data) ==
    /\ ~panicked
    /\ files' = [files EXCEPT ![file_path] = Some(data)]
    /\ UNCHANGED <<built, interactions, default_parameters, pending, ret,
                   panicked, name, path, iterators, builder, flat,
                   tui>>

\* The file at `from` is moved to `to`.
MoveFile(from, to) ==
    /\ ~panicked /\ from # to /\ files[from] # None
    /\ files' = [files EXCEPT ![to] = files[from], ![from] = None]
    /\ UNCHANGED <<built, interactions, default_parameters, pending, ret,
                   panicked, name, path, iterators, builder, flat,
                   tui>>

\* ---------------------------------------------------------- specifications
\* The public API of Conversation, for conversations of at most `cap`
\* messages with contents drawn from `contents`, built with parameters of
\* `parameters` and completed with an n_completions of `overrides`.
Public(cap, contents, parameters, overrides) ==
    \/ \E ps \in parameters, c \in contents : Build(ps, BuildPath, c)
    \/ \E p \in DOMAIN interactions \cup {UnknownId},
          qs \in Lists(contents, MaxBatch), checked \in BOOLEAN :
            Count + Len(qs) <= cap /\ AddQueries(p, qs, checked)
    \/ \E m \in DOMAIN interactions \cup {UnknownId}, n \in overrides :
            DoCompletion(m, n)
    \/ \E cs \in Lists({None} \cup {Some(c) : c \in contents}, MaxChoices), checked \in BOOLEAN :
            Count + Len(cs) <= cap /\ ProviderRespond(cs, checked)
    \/ ProviderFail
    \/ CancelCompletion

Next == Public(MaxMsgs, Contents, {DefaultParameters}, {None})

Spec == Init /\ [][Next]_vars

\* The public API together with direct calls of add_children_to_message.
NextInternal ==
    \/ Public(InternalMax, InternalContents, {DefaultParameters}, {None})
    \/ \E p \in DOMAIN interactions \cup {UnknownId},
          ms \in Lists(InternalContents, MaxBatch), role \in Roles, checked \in BOOLEAN :
            Count + Len(ms) <= InternalMax /\ AddChildren(p, ms, role, checked)

SpecInternal == Init /\ [][NextInternal]_vars

\* One conversation whose root keeps receiving queries, up to WideMax
\* messages: the runs in which a parent gets more children than a u8 counts.
NextWide ==
    \/ Build(DefaultParameters, BuildPath, "a")
    \/ \E k \in 1..WideBatch, checked \in BOOLEAN :
            Count + k <= WideMax /\ AddQueries(1, [i \in 1..k |-> "a"], checked)

SpecWide == Init /\ [][NextWide]_vars

\* One query whose completion is asked for again and again, up to WideMax
\* messages: the runs in which a User message gets more completions than a
\* u8 counts.
NextWideCompletion ==
    \/ Build(DefaultParameters, BuildPath, "a")
    \/ \E checked \in BOOLEAN : Count = 1 /\ AddQueries(1, <<"a">>, checked)
    \/ DoCompletion(2, None)
    \/ \E k \in 1..WideBatch, checked \in BOOLEAN :
            /\ Count + k <= WideMax
            /\ ProviderRespond([i \in 1..k |-> Some("a")], checked)

SpecWideCompletion == Init /\ [][NextWideCompletion]_vars

\* The public API with conversations built with different parameters and
\* completions asked for with and without an n_completions.
NextParams ==
    Public(ParamsMax, InternalContents, ParameterSets, {None, Some(1), Some(3)})

SpecParams == Init /\ [][NextParams]_vars

\* The public API together with the calls that read the tree.
NextRead ==
    \/ Public(ReadMax, ReadContents, {DefaultParameters}, {None})
    \/ GetLatestMessages
    \/ \E a \in {None} \cup {Some(id) : id \in DOMAIN interactions \cup {UnknownId}} :
            GetMessageList(a)
    \/ \E m \in DOMAIN interactions \cup {UnknownId} : GetMessageSiblings(m)

SpecRead == Init /\ [][NextRead]_vars

\* Conversations grown by queries and completions, with one depth-first
\* iterator at a time.
NextIter ==
    \/ Build(DefaultParameters, BuildPath, "a")
    \/ \E p \in DOMAIN interactions, k \in 1..MaxBatch :
            /\ Count + k <= IterMax
            /\ AddQueries(p, [i \in 1..k |-> "a"], FALSE)
    \/ \E m \in DOMAIN interactions :
            interactions[m].role = "User" /\ DoCompletion(m, None)
    \/ \E k \in 1..MaxChoices :
            /\ Count + k <= IterMax
            /\ ProviderRespond([i \in 1..k |-> Some("a")], FALSE)
    \/ iterators = <<>> /\ Iter
    \/ IterNext(1)
    \/ IterDrop(1)

SpecIter == Init /\ [][NextIter]_vars

\* A conversation that grows while no iterator is alive and is then iterated
\* by up to two iterators, stepped in any order.
NextIterTwo ==
    \/ Build(DefaultParameters, BuildPath, "a")
    \/ \E p \in DOMAIN interactions :
            /\ Count + 1 <= IterTwoMax
            /\ AddQueries(p, <<"a">>, FALSE)
    \/ \E m \in DOMAIN interactions :
            interactions[m].role = "User" /\ DoCompletion(m, None)
    \/ /\ Count + 1 <= IterTwoMax
       /\ ProviderRespond(<<Some("a")>>, FALSE)
    \/ Len(iterators) < 2 /\ Iter
    \/ \E h \in 1..2 : IterNext(h)
    \/ \E h \in 1..2 : IterDrop(h)

SpecIterTwo == Init /\ [][NextIterTwo]_vars

\* A conversation that is built at the path p1, grown, named, saved and
\* loaded, on a file system where the file is moved.
NextStore ==
    \/ Build(StoreParameters, BuildPath, "a")
    \/ \E p \in DOMAIN interactions :
            Count + 1 <= StoreMax /\ AddQueries(p, <<"a">>, FALSE)
    \/ \E m \in DOMAIN interactions :
            interactions[m].role = "User" /\ DoCompletion(m, None)
    \/ Count + 1 <= StoreMax /\ ProviderRespond(<<Some("a")>>, FALSE)
    \/ SetName("n")
    \/ \E order \in FrontOrders(interactions), io \in {"ok", "failed", "partial"} :
            Save(order, io)
    \/ \E p \in Paths : Load(p)
    \/ MoveFile("p1", "p2")

SpecStore == Init /\ [][NextStore]_vars

\* A caller that loads the files it finds, written by save or by others,
\* lists the loaded conversation as the TUI does and goes on with it.
NextForeign ==
    \/ Build(DefaultParameters, BuildPath, "a")
    \/ \E p \in DOMAIN interactions :
            Count + 1 <= ForeignMax /\ AddQueries(p, <<"a">>, FALSE)
    \/ \E order \in FrontOrders(interactions) : Save(order, "ok")
    \/ \E data \in ForeignFiles : ForeignWrite("p2", data)
    \/ \E p \in Paths : Load(p)
    \/ \E a \in {None} \cup {Some(id) : id \in DOMAIN interactions} :
            GetMessageList(a)
    \/ GetLatestMessages
    \/ iterators = <<>> /\ Iter
    \/ IterNext(1)
    \/ IterDrop(1)

SpecForeign == Init /\ [][NextForeign]_vars

\* A conversation that is built or loaded, named and extended, and on which
\* every read is called, with identifiers it holds and one it does not; the
\* loaded files include one without root and one with a dangling parent.
NextFrame ==
    \/ Build(DefaultParameters, BuildPath, "a")
    \/ \E p \in DOMAIN interactions :
            /\ Count + 1 <= FrameMax
            /\ AddQueries(p, <<"a">>, FALSE)
    \/ SetName("n")
    \/ \E data \in {NoRootFile, DanglingParentFile} : ForeignWrite("p2", data)
    \/ Load("p2")
    \/ GetName
    \/ \E a \in {None} \cup {Some(id) : id \in DOMAIN interactions \cup {UnknownId}} :
            GetMessageList(a)
    \/ \E m \in DOMAIN interactions \cup {UnknownId} : GetMessageSiblings(m)
    \/ GetLatestMessages
    \/ iterators = <<>> /\ Iter
    \/ IterNext(1)
    \/ IterDrop(1)

SpecFrame == Init /\ [][NextFrame]_vars

\* A conversation that is built, extended, renamed (to the empty name too) and
\* asked for its name.
NextName ==
    \/ \E c \in {"", "a"} : Build(DefaultParameters, BuildPath, c)
    \/ \E p \in DOMAIN interactions, q \in {"a", "b"} :
            /\ Count + 1 <= NameMax
            /\ AddQueries(p, <<q>>, FALSE)
    \/ \E n \in {"", "n1", "n2"} : SetName(n)
    \/ GetName

SpecName == Init /\ [][NextName]_vars

\* The temperatures a caller sets: below the range, its lower bound, inside,
\* the default, the upper bound, above the range, and NaN.
Temperatures == {0 - 1, 0, 7, 10, 20, 21, NaN}

\* A caller that sets fields of a CompletionParametersBuilder and builds.
NextBuilder ==
    \/ BuilderDefault
    \/ \E t \in Temperatures : BuilderSet("temperature", t)
    \/ \E n \in {1, 2} : BuilderSet("n", n)
    \/ \E m \in CompletionModels : BuilderSet("model", m)
    \/ BuilderSet("max_tokens", 256)
    \/ BuilderBuild

SpecBuilder == Init /\ [][NextBuilder]_vars

\* A flat conversation that is made, with a client or without, at a path of
\* the manager or at the empty path, and then queried, completed and saved.
NextFlat ==
    \/ \E file_path \in {<<>>, conversation_path("p1")}, client \in BOOLEAN :
            LibNew(ConversationParameters_default, file_path, client)
    \/ \E message \in {"", "a"} :
            /\ flat # None
            /\ Len(flat[1].interactions) < FlatMax
            /\ LibAddQuery(message)
    \/ \E response \in LibResponses :
            /\ flat # None
            /\ Len(flat[1].interactions) < FlatMax
            /\ LibDoCompletion(response)
    \/ \E io \in {"ok", "failed"} : LibSaveConversation(io)
    \/ LibNewConversation(ConversationParameters_default, "p1")
    \/ \E conversation_name \in Paths : LibLoadConversation(conversation_name)
    \/ LibHasChanged

SpecFlat == Init /\ [][NextFlat]_vars

\* The file save writes for a conversation that was just built.
SavedRootFile ==
    serialize(DefaultParameters, Conversation_build("a").tree, "", <<1>>)

\* The terminal application on a directory that holds no, one or two saved
\* conversations: the user presses up to TuiKeysMax keys, the input thread
\* sends Heartbeat while fewer than TuiQueueMax messages wait, and the
\* provider answers with no choice or one, or fails.
NextTui ==
    \/ \E p \in Paths : tui.start = "created" /\ ForeignWrite(p, SavedRootFile)
    \/ AppStart
    \/ AppStartSend
    \/ AppStartReturn
    \/ RuntimeShutdown
    \/ RunSetup
    \/ RunLoop
    \/ RunRecv
    \/ RunSend
    \/ \E choices \in {<<>>, <<Some("a")>>}, checked \in BOOLEAN :
            RunProviderRespond(choices, checked)
    \/ RunProviderFail
    \/ \E key \in Keys : tui.keys < TuiKeysMax /\ InputKey(key)
    \/ Len(tui.channel) < TuiQueueMax /\ InputHeartbeat
    \/ InputSendFails

SpecTui == Init /\ [][NextTui]_vars

\* The terminal application with no key pressed: the input thread sends
\* Heartbeat whenever the channel has room, and the render task handles what
\* it receives.
NextTuiChannel ==
    \/ AppStart
    \/ AppStartSend
    \/ RunSetup
    \/ RunLoop
    \/ RunRecv
    \/ RunSend
    \/ InputHeartbeat

SpecTuiChannel == Init /\ [][NextTuiChannel]_vars

\* The same with the scheduling of the runtime: start, the render task and
\* the input thread each take their next step when they can.
SpecTuiChannelFair ==
    /\ SpecTuiChannel
    /\ WF_vars(AppStart \/ AppStartSend)
    /\ WF_vars(RunSetup \/ RunLoop \/ RunRecv \/ RunSend)
    /\ WF_vars(InputHeartbeat)

\* ------------------------------------------------------------------ claims
Roots(tree) == {id \in DOMAIN tree : tree[id].parent_id = None}

ChildIds(tree, p) == SelectSeq(IdSeq(tree), LAMBDA id : tree[id].parent_id = Some(p))

\* Whether the parent links from `id` end at a message without parent within
\* `fuel` steps, every parent on the way being a key of the tree.
RECURSIVE ReachesRoot(_, _, _)
ReachesRoot(tree, id, fuel) ==
    IF tree[id].parent_id = None THEN TRUE
    ELSE IF fuel = 0 THEN FALSE
    ELSE /\ tree[id].parent_id[1] \in DOMAIN tree
         /\ ReachesRoot(tree, tree[id].parent_id[1], fuel - 1)

InsertOps == {"add_queries", "add_children_to_message", "do_completion"}

\* C1: once the conversation is built, and after every later call of
\* add_queries, add_children_to_message and do_completion, whether it
\* succeeded or failed, exactly one message has parent_id = None and that
\* message has role System.
C1_UniqueSystemRoot ==
    built => /\ Cardinality(Roots(interactions)) = 1
             /\ \A id \in Roots(interactions) : interactions[id].role = "System"

\* C1's case: a failed call on a conversation into which a direct call of
\* add_children_to_message has put a System message below the root.
C1_Witness ==
    /\ built /\ ret.op \in InsertOps /\ ret.result = "BadMessage"
    /\ \E id \in DOMAIN interactions :
          interactions[id].role = "System" /\ interactions[id].parent_id # None

\* C2: under the public operations every parent_id that is Some(p) has p as
\* a key of the tree, and the parent links from every message reach the root
\* in finitely many steps.
C2_NoDanglingParents ==
    \A id \in DOMAIN interactions :
        /\ interactions[id].parent_id # None
              => interactions[id].parent_id[1] \in DOMAIN interactions
        /\ ReachesRoot(interactions, id, Count)

\* C2's case: a message three parent links away from the root, after a call
\* that named an id which is not in the tree.
C2_Witness ==
    /\ ret.result = "MessageNotPartOfConversation"
    /\ \E id \in DOMAIN interactions :
          /\ ~ReachesRoot(interactions, id, 2)
          /\ ReachesRoot(interactions, id, 3)

\* C3: a successful insertion of k contents under a parent that had c
\* children returns k messages with sibling indices c+1, ..., c+k in input
\* order.
C3_ConsecutiveIndices ==
    (ret.op \in InsertOps /\ ret.result = "Ok") =>
        LET k == Len(ret.messages)
            c == Len(ChildIds(interactions, ret.id)) - k
        IN  \A i \in 1..k : ret.messages[i].index = c + i

\* C3's case: a second successful insertion under the same parent.
C3_Witness ==
    /\ ret.op \in InsertOps /\ ret.result = "Ok"
    /\ Len(ret.messages) >= 1
    /\ Len(ChildIds(interactions, ret.id)) > Len(ret.messages)

\* C4: for every parent the sibling indices of its children are positive and
\* strictly increasing in creation order, starting at 1 (hence pairwise
\* distinct), however many children it has.
C4_SiblingIndices ==
    \A p \in DOMAIN interactions :
        LET ch == ChildIds(interactions, p)
        IN  /\ ch # <<>> => interactions[ch[1]].index = 1
            /\ \A i \in 1..Len(ch) : interactions[ch[i]].index >= 1
            /\ \A i \in 1..(Len(ch) - 1) :
                  interactions[ch[i]].index < interactions[ch[i + 1]].index

\* C5: an insertion that fails because one of its contents is empty inserts
\* nothing: the tree after the call is the tree before it.
C5_FailedInsertionInsertsNothing ==
    [][(ret'.op \in InsertOps /\ ret'.result = "BadMessage")
          => interactions' = interactions]_vars

\* C5's case: a list whose first content is valid and whose second is empty
\* has been refused.
C5_Witness ==
    /\ ret.op = "add_queries" /\ ret.result = "BadMessage"
    /\ Len(ret.contents) = 2 /\ ret.contents[1] # "" /\ ret.contents[2] = ""
    /\ Count >= 2

\* C6: add_queries under a User message returns InvalidMessageRole, and
\* add_queries under an id that is not in the tree returns
\* MessageNotPartOfConversation; both leave the tree unchanged.
C6_AddQueriesRejects ==
    [][ret'.op = "add_queries" =>
        /\ ret'.id \notin DOMAIN interactions
              => /\ ret'.result = "MessageNotPartOfConversation"
                 /\ interactions' = interactions
        /\ (ret'.id \in DOMAIN interactions /\ interactions[ret'.id].role = "User")
              => /\ ret'.result = "InvalidMessageRole"
                 /\ interactions' = interactions]_vars

\* C6's case: non-empty queries have been refused under a User message.
C6_Witness ==
    /\ ret.op = "add_queries" /\ ret.result = "InvalidMessageRole"
    /\ ret.contents # <<>> /\ \A i \in 1..Len(ret.contents) : ret.contents[i] # ""
    /\ interactions[ret.id].role = "User"

\* C7: a successful add_queries returns one message per query, in input
\* order, each a User message below the given parent with the query as its
\* content, and each present in the tree.
C7_AddQueriesReturn ==
    (ret.op = "add_queries" /\ ret.result = "Ok") =>
        /\ Len(ret.messages) = Len(ret.contents)
        /\ \A i \in 1..Len(ret.messages) :
              LET m == ret.messages[i]
              IN  /\ m.role = "User"
                  /\ m.parent_id = Some(ret.id)
                  /\ m.content = ret.contents[i]
                  /\ m.id \in DOMAIN interactions
                  /\ interactions[m.id] = m
        /\ \A i, j \in 1..Len(ret.messages) :
              i # j => ret.messages[i].id # ret.messages[j].id

\* C7's case: two different queries have been added by one call.
C7_Witness ==
    /\ ret.op = "add_queries" /\ ret.result = "Ok"
    /\ Len(ret.contents) = 2 /\ ret.contents[1] # ret.contents[2]

\* C8: when the provider answers without error and without choices,
\* do_completion returns a completion failure and the tree is unchanged.
C8_NoChoicesFails ==
    [][(pending # None /\ ret'.provider = "ok" /\ ret'.choices = <<>>)
          => /\ ret'.result \in {"ClientError", "ResponseError"}
             /\ interactions' = interactions]_vars

\* C9: do_completion is all-or-nothing.  The step that ends a suspended
\* call changes no existing message and either adds nothing or adds every
\* returned content at once as Assistant children of the message, in the
\* provider's order; it adds nothing when the provider call failed or was
\* cancelled or one of the contents is empty, and otherwise adds them all
\* (unless the process panics on the sibling index, see C4).
C9_AllOrNothing ==
    [][pending # None =>
        LET mid == pending[1].message_id
            new == DOMAIN interactions' \ DOMAIN interactions
            rejected == \E i \in 1..Len(ret'.contents) : ret'.contents[i] = ""
        IN  /\ DOMAIN interactions \subseteq DOMAIN interactions'
            /\ \A id \in DOMAIN interactions : interactions'[id] = interactions[id]
            /\ IF ret'.result = "Ok"
               THEN /\ Cardinality(new) = Len(ret'.contents)
                    /\ Len(ret'.messages) = Len(ret'.contents)
                    /\ new = {ret'.messages[i].id : i \in 1..Len(ret'.messages)}
                    /\ \A i \in 1..Len(ret'.messages) :
                          LET m == ret'.messages[i]
                          IN  /\ interactions'[m.id] = m
                              /\ m.role = "Assistant"
                              /\ m.parent_id = Some(mid)
                              /\ m.content = ret'.contents[i]
               ELSE interactions' = interactions
            /\ (ret'.provider \in {"failed", "cancelled"} \/ rejected)
                  => ret'.result # "Ok"
            /\ (ret'.provider = "ok" /\ ~rejected)
                  => ret'.result \in {"Ok", "Panic"}]_vars

\* C9's case: the provider has returned a valid content followed by an empty
\* one, and the call has returned.
C9_Witness ==
    /\ ret.op = "do_completion" /\ ret.provider = "ok"
    /\ Len(ret.contents) = 2 /\ ret.contents[1] # "" /\ ret.contents[2] = ""
    /\ pending = None

\* C10: do_completion for an id that is not in the tree returns
\* MessageNotPartOfConversation, and for a System or Assistant message
\* InvalidMessageRole; in both cases the provider is not invoked and the
\* tree is unchanged.
C10_DoCompletionRejects ==
    [][(pending = None /\ ret'.op = "do_completion") =>
        /\ ret'.id \notin DOMAIN interactions
              => /\ ret'.result = "MessageNotPartOfConversation"
                 /\ ret'.provider = "not_invoked" /\ pending' = None
                 /\ interactions' = interactions
        /\ (ret'.id \in DOMAIN interactions /\ interactions[ret'.id].role # "User")
              => /\ ret'.result = "InvalidMessageRole"
                 /\ ret'.provider = "not_invoked" /\ pending' = None
                 /\ interactions' = interactions]_vars

\* C10's case: do_completion has been refused for an Assistant message.
C10_Witness ==
    /\ ret.op = "do_completion" /\ ret.result = "InvalidMessageRole"
    /\ interactions[ret.id].role = "Assistant"
    /\ pending = None

\* The ids of the messages on the parent links from `id` up to the root,
\* `id` included.
RECURSIVE AncestorIds(_, _)
AncestorIds(tree, id) ==
    IF tree[id].parent_id = None THEN {id}
    ELSE {id} \cup AncestorIds(tree, tree[id].parent_id[1])

\* C11: the message list of the request do_completion sends is the ancestor
\* chain of message_id: it starts with the root, ends with message_id, each
\* element is the parent of the next, and it holds no other message (no
\* sibling of a message of the chain, no descendant of message_id).
C11_RequestIsAncestorChain ==
    pending # None =>
        LET ms == pending[1].messages
            mid == pending[1].message_id
        IN  /\ Len(ms) >= 1
            /\ ms[1].parent_id = None
            /\ ms[Len(ms)].id = mid
            /\ \A i \in 1..Len(ms) : interactions[ms[i].id] = ms[i]
            /\ \A i \in 1..(Len(ms) - 1) : ms[i + 1].parent_id = Some(ms[i].id)
            /\ {ms[i].id : i \in 1..Len(ms)} = AncestorIds(interactions, mid)
            /\ Len(ms) = Cardinality(AncestorIds(interactions, mid))

\* C11's case: a request for a User message that is three parent links below
\* the root, in a tree that also holds a message off the chain.
C11_Witness ==
    /\ pending # None
    /\ Len(pending[1].messages) = 4
    /\ Count > 4

\* C14: under add_queries and do_completion the roles alternate along every
\* parent link: the parent of a User message is a System or Assistant
\* message, the parent of an Assistant message is a User message, and only
\* the root has role System.
C14_RolesAlternate ==
    \A id \in DOMAIN interactions :
        LET m == interactions[id]
        IN  /\ m.role = "System" <=> m.parent_id = None
            /\ m.role = "User" =>
                  /\ m.parent_id # None
                  /\ interactions[m.parent_id[1]].role \in {"System", "Assistant"}
            /\ m.role = "Assistant" =>
                  /\ m.parent_id # None
                  /\ interactions[m.parent_id[1]].role = "User"

\* C14's case: a User message below an Assistant message below a User
\* message below the root, after add_queries under a User message was refused.
C14_Witness ==
    /\ ret.op = "add_queries" /\ ret.result = "InvalidMessageRole"
    /\ \E id \in DOMAIN interactions :
          /\ interactions[id].role = "User"
          /\ ~ReachesRoot(interactions, id, 2)

\* C15: a message that is in the tree stays in it with the same id,
\* parent_id, index, role and content; the tree changes only by the insertion
\* of messages under ids that were not in it.
C15_MessagesImmutable ==
    [][/\ DOMAIN interactions \subseteq DOMAIN interactions'
       /\ \A id \in DOMAIN interactions : interactions'[id] = interactions[id]
       /\ \A id \in DOMAIN interactions' : interactions'[id].id = id]_vars

\* C15's case: a second insertion has added messages to a tree that already
\* held inserted messages.
C15_Witness ==
    /\ ret.op \in InsertOps /\ ret.result = "Ok" /\ Len(ret.messages) >= 1
    /\ Count > Len(ret.messages) + 1

\* C13: the parameters of the request are default_parameters with only n
\* replaced by n_completions when one is given, and default_parameters as
\* they are when none is given; a call never changes the conversation's
\* default_parameters.
C13_RequestParameters ==
    [][/\ built => default_parameters' = default_parameters
       /\ pending' # None =>
            LET q == pending'[1].request
                o == pending'[1].n_completions
                d == default_parameters'
            IN  /\ q.n = IF o # None THEN o[1] ELSE d.n
                /\ q.temperature = d.temperature
                /\ q.max_tokens = d.max_tokens
                /\ q.model = CompletionModel_to_string(d.model)]_vars

\* C13's case: a request sent without n_completions by a conversation that
\* has non-default parameters and has completed a request with an
\* n_completions before.
C13_Witness ==
    /\ pending # None
    /\ pending[1].n_completions = None
    /\ default_parameters # DefaultParameters
    /\ \E id \in DOMAIN interactions : interactions[id].role = "Assistant"

\* C12: when the provider has answered with r contents and do_completion
\* returns Ok, exactly r messages are new; the i-th returned message is the
\* stored new message holding the i-th content, an Assistant child of
\* message_id whose sibling index is c + i, c being the number of children
\* message_id had; no other message is added or changed.
C12_CompletionAddsChildren ==
    [][(pending # None /\ ret'.provider = "ok" /\ ret'.result = "Ok") =>
        LET mid == pending[1].message_id
            r == Len(ret'.contents)
            c == Len(ChildIds(interactions, mid))
            new == DOMAIN interactions' \ DOMAIN interactions
        IN  /\ Cardinality(new) = r /\ Len(ret'.messages) = r
            /\ new = {ret'.messages[i].id : i \in 1..r}
            /\ \A i \in 1..r :
                  LET m == ret'.messages[i]
                  IN  /\ interactions'[m.id] = m
                      /\ m.role = "Assistant"
                      /\ m.parent_id = Some(mid)
                      /\ m.content = ret'.contents[i]
                      /\ m.index = c + i
            /\ \A i \in 1..(r - 1) : ret'.messages[i].id < ret'.messages[i + 1].id
            /\ DOMAIN interactions \subseteq DOMAIN interactions'
            /\ \A id \in DOMAIN interactions : interactions'[id] = interactions[id]]_vars

\* C12's case: a completion of two contents has been added to a message that
\* already had completions.
C12_Witness ==
    /\ ret.op = "do_completion" /\ ret.provider = "ok" /\ ret.result = "Ok"
    /\ Len(ret.messages) = 2
    /\ Len(ChildIds(interactions, ret.id)) > 2

\* The ids of the messages no message has as parent.
Leaves(tree) ==
    {id \in DOMAIN tree : \A o \in DOMAIN tree : tree[o].parent_id # Some(id)}

\* The ids of the children of message p.
ChildSet(tree, p) == {c \in DOMAIN tree : tree[c].parent_id = Some(p)}

\* The number of steps from a message down to a leaf, going at each step to
\* the child with the lowest index.
RECURSIVE DownSteps(_, _)
DownSteps(tree, id) ==
    LET ch == ChildSet(tree, id)
    IN  IF ch = {} THEN 0
        ELSE 1 + DownSteps(tree, CHOOSE c \in ch :
                                    \A d \in ch : tree[c].index <= tree[d].index)

\* C16: get_latest_messages returns exactly the leaves, each once and as
\* stored: a message is returned iff no message has it as parent.  The list is
\* never empty, and for a tree that holds only the root it is the root alone.
C16_LatestAreLeaves ==
    ret.op = "get_latest_messages" =>
        LET ms == ret.messages
        IN  /\ ret.result = "Ok"
            /\ {ms[i].id : i \in 1..Len(ms)} = Leaves(interactions)
            /\ Len(ms) = Cardinality(Leaves(interactions))
            /\ \A i \in 1..Len(ms) : interactions[ms[i].id] = ms[i]
            /\ Len(ms) >= 1
            /\ Count = 1 => /\ Len(ms) = 1
                            /\ ms[1].parent_id = None /\ ms[1].role = "System"

\* C16's case: the call on a tree with inner messages and several leaves,
\* answered in an order that is not the order of creation.
C16_Witness ==
    /\ ret.op = "get_latest_messages"
    /\ Len(ret.messages) >= 2 /\ Count >= Len(ret.messages) + 2
    /\ ret.messages[1].id > ret.messages[2].id

\* C17: for an anchor of the tree, get_message_list returns stored messages
\* that form a path: the first has no parent, the last has no child, the
\* anchor is one of them, each is the parent of the next, and there are as
\* many as the anchor's depth plus the steps from the anchor down to a leaf
\* by lowest index, plus one.
C17_ListIsTreePath ==
    (ret.op = "get_message_list" /\ ret.id # None
        /\ ret.id[1] \in DOMAIN interactions) =>
        LET ms == ret.messages
            a == ret.id[1]
        IN  /\ ret.result = "Ok"
            /\ Len(ms) >= 1
            /\ \A i \in 1..Len(ms) : interactions[ms[i].id] = ms[i]
            /\ ms[1].parent_id = None
            /\ ms[Len(ms)].id \in Leaves(interactions)
            /\ \E i \in 1..Len(ms) : ms[i].id = a
            /\ \A i \in 1..(Len(ms) - 1) : ms[i + 1].parent_id = Some(ms[i].id)
            /\ Len(ms) = (Cardinality(AncestorIds(interactions, a)) - 1)
                            + DownSteps(interactions, a) + 1

\* C17's case: the anchor is two levels below the root, is not the first
\* child of its parent, and has a child.
C17_Witness ==
    /\ ret.op = "get_message_list" /\ ret.id # None
    /\ ret.id[1] \in DOMAIN interactions
    /\ interactions[ret.id[1]].role = "Assistant"
    /\ interactions[ret.id[1]].index >= 2
    /\ ChildSet(interactions, ret.id[1]) # {}

\* C18: from the anchor, or from the root when there is no anchor, the list
\* goes on at each step with the child of lowest index of the message before,
\* and ends at a message without children.  Without anchor the root is the
\* first element.
C18_LowestIndexChild ==
    (ret.op = "get_message_list" /\ ret.result = "Ok") =>
        LET ms == ret.messages
            start == IF ret.id = None
                     THEN CHOOSE id \in Roots(interactions) : TRUE
                     ELSE ret.id[1]
        IN  /\ \E k \in 1..Len(ms) :
                  /\ ms[k].id = start
                  /\ ret.id = None => k = 1
                  /\ \A i \in k..(Len(ms) - 1) :
                        /\ ms[i + 1].id \in ChildSet(interactions, ms[i].id)
                        /\ \A d \in ChildSet(interactions, ms[i].id) :
                              ms[i + 1].index <= interactions[d].index
            /\ ChildSet(interactions, ms[Len(ms)].id) = {}

\* C18's case: no anchor, several queries under the root and several
\* completions under the first query; the list is root, first query, first
\* completion.
C18_Witness ==
    /\ ret.op = "get_message_list" /\ ret.id = None /\ ret.result = "Ok"
    /\ Len(ret.messages) = 3
    /\ Cardinality(ChildSet(interactions, ret.messages[1].id)) >= 2
    /\ Cardinality(ChildSet(interactions, ret.messages[2].id)) >= 2
    /\ ret.messages[2].index = 1 /\ ret.messages[3].index = 1

\* C19: get_message_list with an anchor that is not in the tree and
\* get_message_siblings with an id that is not in the tree return
\* MessageNotPartOfConversation and no list, and leave the tree as it was.
C19_AbsentIdRejected ==
    [][(\/ /\ ret'.op = "get_message_list"
           /\ ret'.id # None
           /\ ret'.id[1] \notin DOMAIN interactions
        \/ /\ ret'.op = "get_message_siblings"
           /\ ret'.id \notin DOMAIN interactions)
        => /\ ret'.result = "MessageNotPartOfConversation"
           /\ ret'.messages = <<>>
           /\ interactions' = interactions
           /\ panicked' = panicked]_vars

\* C19's case: get_message_list has been called with an absent anchor on a
\* tree of several messages.
C19_Witness ==
    /\ ret.op = "get_message_list" /\ ret.id = Some(UnknownId)
    /\ ret.result = "MessageNotPartOfConversation"
    /\ Count >= 3

\* C20: for a message x of the tree, get_message_siblings returns stored
\* messages, x among them: x alone when x is the root, and otherwise every
\* child of x's parent, each once, by ascending index.
C20_SiblingsOfMessage ==
    (ret.op = "get_message_siblings" /\ ret.id \in DOMAIN interactions) =>
        LET ms == ret.messages
            x == interactions[ret.id]
        IN  /\ ret.result = "Ok"
            /\ Len(ms) >= 1
            /\ \E i \in 1..Len(ms) : ms[i] = x
            /\ \A i \in 1..Len(ms) : interactions[ms[i].id] = ms[i]
            /\ IF x.parent_id = None
               THEN ms = <<x>>
               ELSE /\ {ms[i].id : i \in 1..Len(ms)}
                          = ChildSet(interactions, x.parent_id[1])
                    /\ Len(ms) = Cardinality(ChildSet(interactions, x.parent_id[1]))
                    /\ \A i \in 1..(Len(ms) - 1) : ms[i].index < ms[i + 1].index

\* C20's case: x is the second of several siblings and has children of its
\* own.
C20_Witness ==
    /\ ret.op = "get_message_siblings" /\ ret.id \in DOMAIN interactions
    /\ Len(ret.messages) >= 2 /\ ret.messages[2].id = ret.id
    /\ ChildSet(interactions, ret.id) # {}

\* The messages of the subtree of `id` in pre-order, the children of each
\* message taken by ascending index; PreOrderAll does the same for the
\* subtrees of a set of siblings.
RECURSIVE PreOrder(_, _), PreOrderAll(_, _)
PreOrder(tree, id) == <<tree[id]>> \o PreOrderAll(tree, ChildSet(tree, id))

PreOrderAll(tree, siblings) ==
    IF siblings = {} THEN <<>>
    ELSE LET c == CHOOSE c \in siblings :
                     \A d \in siblings : tree[c].index <= tree[d].index
         IN  PreOrder(tree, c) \o PreOrderAll(tree, siblings \ {c})

\* C21: what an iterator has yielded so far is the beginning of the pre-order
\* depth-first sequence of the tree from the root, children by ascending
\* sibling index, each subtree before the next sibling; the message it
\* yields next is the next of that sequence, and it is exhausted exactly
\* when it has yielded the whole sequence.
C21_IterIsPreOrder ==
    \A h \in 1..Len(iterators) :
        LET it == iterators[h]
            full == PreOrder(interactions, CHOOSE r \in Roots(interactions) : TRUE)
            n == Len(it.yielded)
        IN  /\ n <= Len(full)
            /\ it.yielded = SubSeq(full, 1, n)
            /\ IF it.current_stack = <<>> THEN n = Len(full)
               ELSE n < Len(full) /\ Head(it.current_stack) = full[n + 1]

\* C21's case: an iterator is exhausted on the tree root→Q1→{A1,A2},
\* root→Q2→A3→{Q3,Q4}, having yielded [root, Q1, A1, A2, Q2, A3, Q3, Q4];
\* Q2 was created before A1.
C21_Witness ==
    /\ Len(iterators) = 1
    /\ iterators[1].current_stack = <<>>
    /\ LET y == iterators[1].yielded
       IN  /\ Len(y) = 8 /\ Count = 8
           /\ y[1].parent_id = None
           /\ y[2].parent_id = Some(y[1].id) /\ y[2].index = 1
           /\ y[3].parent_id = Some(y[2].id) /\ y[3].index = 1
           /\ y[4].parent_id = Some(y[2].id) /\ y[4].index = 2
           /\ y[5].parent_id = Some(y[1].id) /\ y[5].index = 2
           /\ y[6].parent_id = Some(y[5].id) /\ y[6].index = 1
           /\ y[7].parent_id = Some(y[6].id) /\ y[7].index = 1
           /\ y[8].parent_id = Some(y[6].id) /\ y[8].index = 2
           /\ y[5].id < y[3].id

\* Whether two documents hold the same conversation: the same default
\* parameters, the same name and the same entries, in whatever order.
SameDocument(d1, d2) ==
    /\ d1.kind = "conversation" /\ d2.kind = "conversation"
    /\ d1.default_parameters = d2.default_parameters
    /\ d1.name = d2.name
    /\ Len(d1.interactions) = Len(d2.interactions)
    /\ {d1.interactions[i] : i \in 1..Len(d1.interactions)}
          = {d2.interactions[i] : i \in 1..Len(d2.interactions)}

\* C23: a load of the file that the save just before it has written (where
\* it was written or where it was moved to) succeeds and gives the default
\* parameters, the messages and the name of the saved conversation, with one
\* root and no parent_id outside the tree if the saved one was so; and a save
\* right after a load writes a document that holds the same conversation as
\* the document loaded.
C23_SaveLoadRoundTrip ==
    [][/\ (/\ ret.op = "save" /\ ret.result = "Ok"
           /\ ret'.op = "load"
           /\ ret'.value.data = ret.value.data)
          => /\ ret'.result = "Ok"
             /\ default_parameters' = default_parameters
             /\ interactions' = interactions
             /\ name' = name
             /\ Cardinality(Roots(interactions'))
                   = Cardinality(Roots(interactions))
             /\ \A id \in DOMAIN interactions' :
                   interactions'[id].parent_id # None
                      => interactions'[id].parent_id[1] \in DOMAIN interactions'
       /\ (/\ ret.op = "load" /\ ret.result = "Ok"
           /\ ret'.op = "save" /\ ret'.result = "Ok")
          => SameDocument(ret'.value.data[1], ret.value.data[1])]_vars

\* C23's case: a named conversation of three messages, one of them an
\* answer, has been loaded from a file that save wrote in an order other
\* than the order of creation, after the file was moved.
C23_Witness ==
    /\ ret.op = "load" /\ ret.result = "Ok"
    /\ ret.value.path = "p2"
    /\ Count = 3 /\ name = "n"
    /\ \E id \in DOMAIN interactions : interactions[id].role = "Assistant"
    /\ ret.value.data[1].interactions[1].key # 1

\* C24: after a successful load the conversation's path is the path given to
\* load; no document written by save holds a path; and a save right after a
\* load writes the file at the path given to load and no other.
C24_LoadRebindsPath ==
    [][/\ (ret'.op = "load" /\ ret'.result = "Ok") => path' = ret'.value.path
       /\ \A p \in Paths :
             (files'[p] # None /\ files'[p][1].kind = "conversation")
                => DOMAIN files'[p][1]
                      = {"kind", "default_parameters", "interactions", "name"}
       /\ (/\ ret.op = "load" /\ ret.result = "Ok"
           /\ ret'.op = "save" /\ ret'.result = "Ok")
          => files' = [files EXCEPT ![ret.value.path] = ret'.value.data]]_vars

\* C24's case: a conversation built and saved at p1 was loaded from p2,
\* where its file had been moved, and has been saved again: the file is at
\* p2.
C24_Witness ==
    /\ ret.op = "save" /\ ret.result = "Ok"
    /\ path = "p2" /\ ret.value.path = "p2"
    /\ files["p2"] = ret.value.data
    /\ files["p1"] = None
    /\ Count >= 2

\* Whether a document holds a conversation without exactly one root or with
\* a parent_id that is no key.
CorruptDocument(d) ==
    /\ d.kind = "conversation"
    /\ LET entries == d.interactions
           keys == {entries[i].key : i \in 1..Len(entries)}
           roots == {i \in 1..Len(entries) : entries[i].value.parent_id = None}
       IN  \/ Cardinality(roots) # 1
           \/ \E i \in 1..Len(entries) :
                 /\ entries[i].value.parent_id # None
                 /\ entries[i].value.parent_id[1] \notin keys

\* C25: a load of a document without exactly one root, or with a parent_id
\* that is no key, fails and produces no conversation.
C25_LoadRejectsCorrupt ==
    (/\ ret.op = "load"
     /\ ret.value.data # None
     /\ CorruptDocument(ret.value.data[1]))
        => ret.result # "Ok"

\* C25's case: the file with two roots has been loaded.
C25_Witness ==
    /\ ret.op = "load" /\ ret.value.data = Some(TwoRootsFile)
    /\ Cardinality(Roots(interactions)) = 2

\* C26: no call panics.
C26_NoPanic == ~panicked

\* C26's case: the listing of a loaded conversation has panicked.
C26_Witness ==
    /\ panicked /\ ret.op = "get_message_list" /\ ret.result = "Panic"

\* C27: every message of the tree has a content that is not empty.
C27_ContentsNotEmpty ==
    \A id \in DOMAIN interactions : interactions[id].content # ""

\* C27's case: the file with a message without content has been loaded and
\* a query added to it.
C27_Witness ==
    /\ ret.op = "add_queries" /\ ret.result = "Ok"
    /\ \E id \in DOMAIN interactions : interactions[id].content = ""

ReadOps ==
    {"get_latest_messages", "get_message_list", "get_message_siblings",
     "name", "iter", "next"}

\* C22: a call of get_latest_messages, get_message_list (with the root
\* lookup), get_message_siblings, name, iter or next leaves the messages, the
\* default parameters, the name and the path as they were, whatever it
\* returns.
C22_ReadsChangeNothing ==
    [][ret'.op \in ReadOps =>
          /\ interactions' = interactions
          /\ default_parameters' = default_parameters
          /\ name' = name
          /\ path' = path]_vars

\* C22's case: a read has returned an error on a named conversation of
\* several messages.
C22_Witness ==
    /\ ret.op = "get_message_siblings"
    /\ ret.result = "MessageNotPartOfConversation"
    /\ name = "n" /\ Count >= 2

\* C28: a conversation just built has the empty name; set_name(n) returns the
\* name held before the call and leaves n as the name; name() returns the
\* name and keeps it; and a set_name called with what the set_name before it
\* returned puts the earlier name back and returns the name in between.
C28_NameAndSetName ==
    [][/\ (ret'.op = "build" /\ ret'.result = "Ok") => name' = ""
       /\ ret'.op = "set_name" =>
            /\ ret'.value = name
            /\ name' = ret'.contents[1]
       /\ ret'.op = "name" => (ret'.value = name /\ name' = name)
       /\ (/\ ret.op = "set_name" /\ ret'.op = "set_name"
           /\ ret'.contents[1] = ret.value) =>
            (name' = ret.value /\ ret'.value = ret.contents[1])]_vars

\* C28's case: a second set_name has put back the name "n1" that the first
\* one, called with "n2", had returned.
C28_Witness ==
    /\ ret.op = "set_name" /\ ret.contents = <<"n1">> /\ ret.value = "n2"
    /\ name = "n1" /\ Count >= 2

\* C29: building CompletionParameters fails when the temperature set is below
\* 0.0 or above 2.0, and succeeds, with that temperature, when it is within
\* 0.0 and 2.0, both included; with no temperature set it succeeds with the
\* temperature 1.0.
C29_TemperatureRange ==
    ret.op = "CompletionParametersBuilder_build" =>
        LET t == ret.value.builder.temperature
            p == ret.value.parameters
        IN  /\ (t # None /\ t[1] # NaN /\ (t[1] < 0 \/ t[1] > 20)) =>
                    (ret.result # "Ok" /\ p = None)
            /\ (t # None /\ t[1] # NaN /\ t[1] >= 0 /\ t[1] <= 20) =>
                    (ret.result = "Ok" /\ p # None /\ p[1].temperature = t[1])
            /\ t = None =>
                    (ret.result = "Ok" /\ p # None /\ p[1].temperature = 10)

\* C29's case: a build with the temperature 2.0 and another model has
\* succeeded.
C29_Witness ==
    /\ ret.op = "CompletionParametersBuilder_build" /\ ret.result = "Ok"
    /\ ret.value.builder.temperature = Some(20)
    /\ ret.value.parameters[1].model = "GPT4"

C31_HasChangedLifecycle ==
    [][/\ ret'.op = "new_conversation" => flat'[1].updated
       /\ (ret'.op \in {"save_conversation", "load_conversation"}
           /\ ret'.result = "Ok") => ~flat'[1].updated
       /\ (ret'.op \in {"add_query", "lib_do_completion"}
           /\ ret'.result = "Ok") => flat'[1].updated
       /\ ret'.op = "has_changed" => ret'.value = flat'[1].updated
       /\ (ret'.op = "save_conversation" /\ ~flat[1].updated) =>
            (ret'.result = "Ok" /\ files' = files /\ flat' = flat)]_vars

\* C31's case: a conversation that was loaded and has taken a query and its
\* answer is reported as changed.
C31_Witness ==
    /\ flat # None /\ ret.op = "has_changed" /\ ret.value
    /\ flat[1].name = "p1" /\ files["p1"] # None
    /\ Len(flat[1].interactions) = 2
    /\ Len(files["p1"][1].interactions) = 0

\* C32: add_children_to_message called with a parent_id that is no key of the
\* tree fails and inserts nothing, whatever the role and the contents.
C32_AbsentParentRejected ==
    (ret.op = "add_children_to_message" /\ ret.id = UnknownId) =>
        /\ ret.result # "Ok"
        /\ \A id \in DOMAIN interactions :
              interactions[id].parent_id # Some(UnknownId)

\* C32's case: add_children_to_message has been called with non-empty
\* contents and a parent_id that is no key, and the tree holds its messages.
C32_Witness ==
    /\ ret.op = "add_children_to_message" /\ ret.id = UnknownId
    /\ ret.contents # <<>> /\ ret.result = "Ok"
    /\ \E id \in DOMAIN interactions :
          interactions[id].parent_id = Some(UnknownId)

\* C33: while a do_completion is suspended on the provider, no step changes
\* the messages, the name, the path or the default parameters of the
\* conversation or starts another completion; the step that ends the
\* suspension is the return of that do_completion, and it keeps every message
\* the tree held when the request was sent and adds only children of the
\* message the completion was asked for.
C33_SingleFlight ==
    [][pending # None =>
          /\ pending' # None =>
                /\ pending' = pending
                /\ interactions' = interactions
                /\ name' = name /\ path' = path
                /\ default_parameters' = default_parameters
          /\ pending' = None =>
                /\ ret'.op = "do_completion"
                /\ ret'.id = pending[1].message_id
                /\ name' = name /\ path' = path
                /\ default_parameters' = default_parameters
                /\ \A id \in DOMAIN interactions :
                      /\ id \in DOMAIN interactions'
                      /\ interactions'[id] = interactions[id]
                /\ \A id \in DOMAIN interactions' \ DOMAIN interactions :
                      interactions'[id].parent_id
                          = Some(pending[1].message_id)]_vars

\* C33's case: a completion asked for on a named conversation that was
\* loaded from a file has returned with an answer.
C33_Witness ==
    /\ ret.op = "do_completion" /\ ret.result = "Ok" /\ ret.provider = "ok"
    /\ name = "n" /\ path = "p2"
    /\ \E id \in DOMAIN interactions : interactions[id].role = "Assistant"

\* C34: an iterator never yields more items than the tree has messages nor
\* the same message twice; each next on an iterator that is not exhausted
\* yields one more message, so that the iterator is exhausted after as many
\* calls as there are messages; when it is exhausted it has yielded every
\* message of the tree, and each later next returns None and leaves it
\* exhausted.
C34_IterExhausts ==
    /\ [](\A h \in 1..Len(iterators) :
            LET y == iterators[h].yielded
            IN  /\ Len(y) <= Count
                /\ \A i, j \in 1..Len(y) : y[i].id = y[j].id => i = j
                /\ iterators[h].current_stack = <<>> =>
                      /\ Len(y) = Count
                      /\ {y[i].id : i \in 1..Len(y)} = DOMAIN interactions)
    /\ [][(ret'.op = "next" /\ Len(iterators') = Len(iterators)) =>
            LET before == iterators[ret'.id]
                after == iterators'[ret'.id]
            IN  IF before.current_stack = <<>>
                THEN ret'.value = None /\ after = before
                ELSE /\ ret'.value # None
                     /\ after.yielded = Append(before.yielded, ret'.value[1])
                     /\ ret'.value[1] = interactions[ret'.value[1].id]]_vars

\* C34's case: next has returned None on an iterator that had yielded each
\* of the six messages of a tree with two branches.
C34_Witness ==
    /\ ret.op = "next" /\ ret.value = None
    /\ Len(iterators) = 1 /\ iterators[1].current_stack = <<>>
    /\ Len(iterators[1].yielded) = 6 /\ Count = 6
    /\ Cardinality(Leaves(interactions)) >= 2

\* C35: each of the iterators alive on a tree has yielded the beginning of
\* the depth-first sequence of the tree from the root, however the calls of
\* next on them were interleaved; a next on one iterator leaves every other
\* iterator as it was; and iter gives a new iterator that starts at the root
\* and leaves the others as they were.
C35_IteratorsIndependent ==
    /\ [](\A h \in 1..Len(iterators) :
            LET full == PreOrder(interactions,
                                 CHOOSE r \in Roots(interactions) : TRUE)
                y == iterators[h].yielded
            IN  Len(y) <= Len(full) /\ y = SubSeq(full, 1, Len(y)))
    /\ [][/\ (ret'.op = "next" /\ Len(iterators') = Len(iterators)) =>
              \A g \in 1..Len(iterators) :
                  g # ret'.id => iterators'[g] = iterators[g]
          /\ (ret'.op = "iter" /\ ret'.result = "Ok"
              /\ Len(iterators') = Len(iterators) + 1) =>
              /\ \A g \in 1..Len(iterators) : iterators'[g] = iterators[g]
              /\ LET new == iterators'[Len(iterators')]
                 IN  /\ new.yielded = <<>>
                     /\ Len(new.current_stack) = 1
                     /\ new.current_stack[1].parent_id = None]_vars

\* C35's case: of two iterators on a tree of four messages in two branches,
\* the second, made after the first had yielded the root, is exhausted, and
\* the first has then yielded its second message.
C35_Witness ==
    /\ Len(iterators) = 2 /\ Count = 4
    /\ Cardinality(Leaves(interactions)) = 2
    /\ iterators[2].current_stack = <<>> /\ Len(iterators[2].yielded) = 4
    /\ Len(iterators[1].yielded) = 2
    /\ ret.op = "next" /\ ret.id = 1

\* The conversations of the application that have a message from the User
\* without answer.
UserLeaf(tree) == \E id \in Leaves(tree) : tree[id].role = "User"

\* C36: while the provider has been asked for a completion and has not
\* answered, the render task is at the head of its loop or receiving the
\* next message, not held by the call of the provider.
C36_CompletionInBackground ==
    tui.in_flight # None => tui.run \in {"loop", "recv"}

\* C36's case: a completion is in flight, the render task waits for the
\* provider, and a Heartbeat and the Quit of the user wait in the channel.
C36_Witness ==
    /\ tui.in_flight # None /\ tui.run = "completion"
    /\ \E i, j \in 1..Len(tui.channel) :
          /\ tui.channel[i].type = "Heartbeat"
          /\ tui.channel[j].type = "Quit"

\* C37: whenever the render task sends a message into the channel, the send
\* completes.
C37_SendCompletes == (tui.run = "send") ~> (tui.run # "send")

\* C37's case: the render task is sending the status of
\* refresh_conversations into a channel that holds 32 messages.
C37_Witness ==
    /\ tui.run = "send" /\ Len(tui.channel) = ChannelCapacity
    /\ tui.outbox # None /\ tui.outbox[1].type = "StatusMessage"

\* C38: the render task has not panicked, and the selection is unset or an
\* index of loaded_conversations.
C38_SelectionValid ==
    /\ tui.run # "panicked"
    /\ \/ tui.app.selected = None
       \/ tui.app.selected[1] < Len(tui.app.loaded_conversations)

\* C38's case: no conversation was loaded, refresh_conversations has selected
\* the index 0, and the render task has panicked on NextConversation or
\* PreviousConversation.
C38_Witness ==
    /\ tui.run = "panicked"
    /\ tui.app.loaded_conversations = <<>>
    /\ tui.app.selected = Some(0)

\* C39: when the user has pressed Esc and start has returned, the terminal
\* has been restored.
C39_QuitRestoresTerminal ==
    (tui.esc /\ tui.start = "returned") => tui.app.terminal = "restored"

\* C39's case: Esc was pressed, start has returned and the render task was
\* dropped with the terminal in raw mode.
C39_Witness ==
    /\ tui.esc /\ tui.start = "returned"
    /\ tui.run = "dropped" /\ tui.app.terminal = "raw"

\* C40: when the render task is not handling a message, no loaded
\* conversation has a User message without answer: an Input has added the
\* query with an answer or has left the conversation as it was.
C40_InputAllOrNothing ==
    tui.run \in {"loop", "recv"} =>
        \A c \in 1..Len(tui.app.loaded_conversations) :
            ~UserLeaf(tui.app.loaded_conversations[c].interactions)

\* C40's case: the status of a failed completion has been shown, and the
\* conversation keeps the query as a leaf.
C40_Witness ==
    /\ tui.run = "recv"
    /\ \E i \in 1..Len(tui.app.status_queue) :
          tui.app.status_queue[i] = "Error while communicating with ChatGPT"
    /\ \E c \in 1..Len(tui.app.loaded_conversations) :
          UserLeaf(tui.app.loaded_conversations[c].interactions)

====
